---- MODULE Spec2Model ----
(***************************************************************************)
(* Model of the WhatsApp session connection manager of                     *)
(* src/src/app/whatsapp/whatsapp.service.ts (class WhatsappService).       *)
(*                                                                         *)
(* The service runs on one event loop: a handler runs without interruption *)
(* up to its next await on a timer or on I/O.  Each action below is one    *)
(* such uninterrupted run.  An await on an async method that itself holds  *)
(* no await (safeCloseClient) only yields for a microtask and is part of   *)
(* the same run.                                                           *)
(*                                                                         *)
(* The transport library (makeWASocket) is the environment: every handle   *)
(* it has created emits connection.update events according to the state of *)
(* its socket, to the listener start() registered with the handle's id.    *)
(***************************************************************************)
EXTENDS Integers, Sequences, FiniteSets, TLC

(***************************************************************************)
(* Bounds of the model (not program constants).                            *)
(***************************************************************************)
\* handles start() may create in one run (caps clientCounter)
MaxClients == 6
\* reconnect timers that are pending but no longer referenced
MaxOrphanTimers == 1
\* detached handles whose socket has not yet reported closed
MaxLingering == 1
\* callers that may join one in-flight start()
MaxJoined == 1
\* inbound batches that arrive in one run
MaxBatches == 3
\* entries of the subscriber registry
MaxRegistry == 4
\* subscribers one dispatch goes to
MaxSubscribers == 2

(***************************************************************************)
(* Program constants.                                                      *)
(***************************************************************************)
\* private readonly reconnectBackoffMs = [1000, 2000, 2500, 3000, 4000]
reconnectBackoffMs == <<1000, 2000, 2500, 3000, 4000>>
\* private maxConnectionAttemps = this.reconnectBackoffMs.length
maxConnectionAttemps == Len(reconnectBackoffMs)
\* DisconnectReason.loggedOut of the transport library
loggedOut == 401

\* The close reasons the transport reports: a dropped connection, an
\* explicit logout, and the abandoned QR flow.
CloseReasons ==
    { [statusCode |-> 428, message |-> "Connection Closed"],
      [statusCode |-> 401, message |-> "Intentional Logout"],
      [statusCode |-> 408, message |-> "QR refs attempts ended"] }

NoReason == [statusCode |-> 0, message |-> ""]

Handles == 1..MaxClients

\* The registry contents a run starts with: no subscriber, or one.
Registries == { <<>>, <<"https://a">> }

VARIABLES
    client,            \* this.client: 0 = null, else the id of the handle
    isConnected,       \* this.isConnected
    currentClientId,   \* this.currentClientId: 0 = null
    clientCounter,     \* this.clientCounter
    reconnectCount,    \* this.reconnectCount
    reconnectTimeout,  \* this.reconnectTimeout: "null", or the state of the
                       \* timer it references: "pending" or "fired"
    orphanTimers,      \* pending reconnect timers this.reconnectTimeout no
                       \* longer references (overwritten without clearTimeout)
    startPromise,      \* this.startPromise # null
    startPc,           \* position of the body of the in-flight start()
    joined,            \* callers awaiting the in-flight startPromise
    uncaught,          \* a caller that does not catch the rejection of its
                       \* start() call awaits an in-flight attempt that may
                       \* reject
    refreshInProgress, \* this.refreshInProgress
    suppressReconnect, \* this.suppressReconnect
    refreshPc,         \* position of forceRefreshConnection
    ws,                \* socket state by client id: "none" for an id not yet
                       \* computed, "closed" for an id whose socket emits
                       \* nothing more (or was never made: makeWASocket threw)
    webhooks,          \* the subscriber registry (content of webhooks.txt)
    authorizedWhatsAppIds, \* this.authorizedWhatsAppIds (the allowlist)
    now,               \* Date.now(), as <<millions, rest>> of milliseconds
    messageQueue,      \* this.messageQueue: the batches whose callbacks are
                       \* chained on the promise and have not begun
    job,               \* the batch callback that is running, and its position
    dispatch,          \* the WebhookService.send / sendWithResponse call
                       \* that is running, and its position
    sending,           \* the host's sendMessage call that is running, and
                       \* its position
    lifecycle,         \* the environment settings read at construction, the
                       \* interval timers, and the position of onModuleInit
    last               \* what the last step did (observation only)

vars == <<client, isConnected, currentClientId, clientCounter, reconnectCount,
          reconnectTimeout, orphanTimers, startPromise, startPc, joined,
          uncaught, refreshInProgress, suppressReconnect, refreshPc, ws, webhooks,
          authorizedWhatsAppIds, now, messageQueue, job, dispatch, sending, lifecycle,
          last>>

sessionVars == <<client, isConnected, currentClientId>>
timerVars == <<reconnectTimeout, orphanTimers>>
startVars == <<startPromise, startPc, joined, uncaught>>
refreshVars == <<refreshInProgress, suppressReconnect, refreshPc>>
pipeVars ==
    <<authorizedWhatsAppIds, now, messageQueue, job, dispatch, sending, lifecycle>>

\* The observation of a step: the operation, the handle an event came from,
\* the generation id that was current before it, the close reason, the
\* outcome of a start() call, what was emitted to the host on 'start.event',
\* and the delay of a reconnect timer it scheduled (0: none).
Obs(op, h, cur, reason, call, emit, delay) ==
    [op |-> op, h |-> h, cur |-> cur, reason |-> reason, call |-> call,
     emit |-> emit, delay |-> delay]

Step(op, call) == Obs(op, 0, currentClientId, NoReason, call, "none", 0)

\* The session after construction.
SessionInit ==
    /\ client = 0
    /\ isConnected = FALSE
    /\ currentClientId = 0
    /\ clientCounter = 0
    /\ reconnectCount = 0
    /\ reconnectTimeout = "null"
    /\ orphanTimers = 0
    /\ startPromise = FALSE
    /\ startPc = "idle"
    /\ joined = 0
    /\ uncaught = FALSE
    /\ refreshInProgress = FALSE
    /\ suppressReconnect = FALSE
    /\ refreshPc = "idle"
    /\ ws = [h \in Handles |-> "none"]
    /\ last = Step("init", "none")

\* The batch callback of onMessageUpsert runs from one await to the next.
\* job.pc names the await it is suspended at: "download"
\* (downloadMediaMessage), "composing" (sendPresenceUpdate), "dispatch"
\* (webhook.sendWithResponse), "read" (readMessages), "pad" (delay(1000 -
\* elapsed)), "paused" (sendPresenceUpdate), "delay" (delay(250)), and inside
\* sendMessage "ensure"/"reensure" (ensureConnected awaiting start()) and
\* "send"/"resend" (client.sendMessage).  job.id numbers the batches in the
\* order of arrival; an idle job keeps the number of the last batch that
\* settled.  job.list is the registry content the callback read when it
\* began, job.reply the reply text found for the item.  job.log records
\* what the last uninterrupted run of the callback did (observation only).
\* job.jid is normalizedJid and job.payload is webhookPayload of the item in
\* progress, once the callback has computed them.
NoPayload ==
    [keys |-> {}, from |-> "", type |-> "", message |-> "", base64 |-> ""]

IdleJob(id) ==
    [pc |-> "idle", id |-> id, batch |-> <<>>, k |-> 0, list |-> <<>>,
     reply |-> "", jid |-> "", payload |-> NoPayload, log |-> {}]

\* A WebhookService.send / sendWithResponse call runs from one await fetch
\* to the next.  dispatch.pc is "idle" (no call), "fetch" (suspended at
\* await fetch(url) for url = list[at]) or "done" (the call has returned
\* dispatch.results to its caller).  dispatch.answers records what each
\* subscriber asked so far did (observation only).
IdleDispatch ==
    [pc |-> "idle", op |-> "none", list |-> <<>>, at |-> 0, results |-> <<>>,
     answers |-> <<>>]

\* A value of a request field: undefined, null or an object, with the names
\* of the object's own keys and what to.string reads from its type and data.
Value(t, keys, type, data) ==
    [t |-> t, keys |-> keys, type |-> type, data |-> data]

Undefined == Value("undefined", {}, "", "")

\* A sendMessage call of the host runs from one await to the next.
\* sending.pc is "idle", "ensure" / "reensure" (ensureConnected awaiting
\* start()), "send" / "resend" (client.sendMessage), "returned" or "threw".
\* sending.content is what buildMessageContent built; sending.attempts
\* lists how the transport sends made so far ended, sending.ensures counts
\* the calls of ensureConnected(), and sending.result is what the call
\* returned: "none", "empty" ({}) or "sent" (observation only).
IdleSending ==
    [pc |-> "idle", payload |-> Undefined, content |-> Undefined,
     attempts |-> <<>>, ensures |-> 0, started |-> FALSE, result |-> "none"]

\* An environment variable that is not set, or set to the string str (a
\* sequence of characters)
Unset == [set |-> FALSE, str |-> <<>>]

Setting(str) == [set |-> TRUE, str |-> str]

\* to.string(process.env.X)
toString(env) == IF env.set THEN env.str ELSE <<>>

\* to.boolean(value): undefined is false; a string is true when, lowercased
\* and trimmed, it is 'true' or '1' (on the settings of Flags lowercasing
\* and trimming change nothing)
toBoolean(env) ==
    env.set /\ env.str \in {<<"t", "r", "u", "e">>, <<"1">>}

NaN == [kind |-> "NaN", n |-> 0]

Num(n) == [kind |-> "number", n |-> n]

DigitChars == <<"0", "1", "2", "3", "4", "5", "6", "7", "8", "9">>

IsDigits(str) ==
    \A i \in DOMAIN str : \E d \in DOMAIN DigitChars : DigitChars[d] = str[i]

RECURSIVE Decimal(_)
Decimal(str) ==
    IF str = <<>> THEN 0
    ELSE Decimal(SubSeq(str, 1, Len(str) - 1)) * 10
         + (CHOOSE d \in 0..9 : DigitChars[d + 1] = str[Len(str)])

RECURSIVE Pow10(_)
Pow10(k) == IF k = 0 THEN 1 ELSE 10 * Pow10(k - 1)

\* A number that is not an integer: num / 10^exp, with exp > 0 and num not
\* a multiple of 10.
Fraction(num, exp) == [kind |-> "fraction", n |-> num, exp |-> exp]

\* The number num / 10^exp in its shortest form.
RECURSIVE Shortest(_, _)
Shortest(num, exp) ==
    IF exp = 0 THEN Num(num)
    ELSE IF num % 10 = 0 THEN Shortest(num \div 10, exp - 1)
    ELSE Fraction(num, exp)

\* Number(str) for a string of digits, '.' and '-': '' is 0; an optional
\* '-', then digits with an optional '.' and optional digits behind it, or
\* '.' and digits, is that decimal number; anything else is NaN.
NumberOf(str) ==
    LET negative == str # <<>> /\ Head(str) = "-"
        body == IF negative THEN Tail(str) ELSE str
        dots == { i \in DOMAIN body : body[i] = "." }
        dot == IF dots = {} THEN Len(body) + 1 ELSE CHOOSE i \in dots : TRUE
        whole == SubSeq(body, 1, dot - 1)
        behind == SubSeq(body, dot + 1, Len(body))
        magnitude == Decimal(whole \o behind)
    IN  IF str = <<>> THEN Num(0)
        ELSE IF \/ Cardinality(dots) > 1
                \/ ~IsDigits(whole \o behind)
                \/ whole \o behind = <<>>
        THEN NaN
        ELSE Shortest(IF negative THEN 0 - magnitude ELSE magnitude,
                      Len(behind))

\* to.number(num, defaultNumber): num = to.string(num).replace(/[^\d.\-]/g,
\* ''); the tests is.undefined(num), num === null and Number.isNaN(num) are
\* made on that string and are false for every string; return Number(num)
toNumber(env, defaultNumber) ==
    LET num == SelectSeq(toString(env),
                         LAMBDA c : IsDigits(<<c>>) \/ c \in {".", "-"})
        isUndefined == FALSE
        isNull == FALSE
        isNaN == FALSE
    IN  IF isUndefined \/ isNull \/ isNaN THEN Num(defaultNumber)
        ELSE NumberOf(num)

\* a >= b for two numbers, compared on a common denominator
AtLeast(a, b) ==
    LET expOf(v) == IF v.kind = "fraction" THEN v.exp ELSE 0
        k == IF expOf(a) >= expOf(b) THEN expOf(a) ELSE expOf(b)
    IN  a.n * Pow10(k - expOf(a)) >= b.n * Pow10(k - expOf(b))

\* Math.max(a, b): NaN when an argument is NaN
MathMax(a, b) ==
    IF a.kind = "NaN" \/ b.kind = "NaN" THEN NaN
    ELSE IF AtLeast(a, b) THEN a ELSE b

\* The fields the constructor computes from the environment, for the
\* settings of WHATSAPP_AUTO_RECOVER, WHATSAPP_AUTO_RECOVER_INTERVAL_MS,
\* WHATSAPP_FORCE_REFRESH_ENABLED and WHATSAPP_FORCE_REFRESH_INTERVAL_MS, and
\* whether auth_info holds creds.json.  pc is the position of onModuleInit:
\* "constructed", "start" (awaiting start()) or "initialised"; destroyed
\* tells that onModuleDestroy() has been called.
Constructed(recover, recoverMs, refresh, refreshMs, savedSession) ==
    [pc |-> "constructed",
     destroyed |-> FALSE,
     env |-> <<recover, recoverMs, refresh, refreshMs>>,
     hasSavedSession |-> savedSession,
     autoRecoverEnabled |-> toBoolean(recover),
     autoRecoverIntervalMs |-> MathMax(Num(5000), toNumber(recoverMs, 30000)),
     forcedRefreshEnabled |->
         IF ~refresh.set THEN TRUE ELSE toBoolean(refresh),
     forcedRefreshIntervalMs |->
         MathMax(Num(60000), toNumber(refreshMs, 10 * 60 * 1000)),
     autoRecoverTimer |-> FALSE,
     refreshTimer |-> FALSE]

\* The pipeline after construction: messageQueue = Promise.resolve(), no
\* AUTHORIZED_WHATSAPP_IDS configured.  The clock reads 1 700 000 100 000.
WorkInit ==
    /\ authorizedWhatsAppIds = {}
    /\ now = <<1700000, 100000>>
    /\ messageQueue = <<>>
    /\ job = IdleJob(0)
    /\ dispatch = IdleDispatch
    /\ sending = IdleSending

\* Construction with none of the four settings in the environment
PipelineInit ==
    /\ WorkInit
    /\ lifecycle = Constructed(Unset, Unset, Unset, Unset, FALSE)

\* WebhookService's constructor creates an empty webhooks.txt
\* (ensureFileExists); with no WEBHOOK_URLS configured it stays empty.
Init ==
    /\ SessionInit
    /\ webhooks = <<>>
    /\ PipelineInit

(***************************************************************************)
(* safeCloseClient                                                         *)
(***************************************************************************)
\* Handles that are detached from the session while their socket is neither
\* closed nor unused: they can still emit events.
Lingering ==
    { h \in Handles :
        h # client /\ ws[h] \in {"connecting", "open", "closing", "aborting"} }

\* The socket states a handle can be left in by the close attempt of
\* safeCloseClient.  if (ws.readyState === 1) ws.close(): the open socket
\* whose readyState reads as the number 1 starts its closing handshake
\* ("closing": it still receives frames, and its close event follows).
\* else client.end(): the socket that never opened, and the open socket of
\* a handle whose ws exposes no numeric readyState, is torn down
\* ("aborting": its close event follows).  Either call may also end the
\* handle with no further event ("closed"), or throw and leave the socket
\* as it was.
CloseAttempt(h) ==
    IF ws[h] \in {"none", "closed"} THEN {ws[h]}
    ELSE IF Cardinality(Lingering) < MaxLingering
         THEN (IF ws[h] = "open" THEN {"closing"} ELSE {}) \cup
              {"aborting", "closed", ws[h]}
         ELSE {"closed"}

\* safeCloseClient(reason): if (!this.client) return; try { close } finally
\* { client = null; isConnected = false; currentClientId = null }
safeCloseClient ==
    IF client = 0
    THEN UNCHANGED <<sessionVars, ws>>
    ELSE /\ \E s \in CloseAttempt(client) : ws' = [ws EXCEPT ![client] = s]
         /\ client' = 0
         /\ isConnected' = FALSE
         /\ currentClientId' = 0

(***************************************************************************)
(* start()                                                                 *)
(***************************************************************************)
\* Variant of StartEntry without the startPromise test: a caller that
\* arrives while a start is in flight begins a body of its own.
StartEntryNoJoin ==
    IF refreshInProgress THEN "return" ELSE "begin"

\* if (this.refreshInProgress) return;
\* if (this.startPromise) return this.startPromise;
\* otherwise the caller begins the body and owns startPromise.
StartEntry ==
    IF refreshInProgress THEN "return"
    ELSE IF startPromise THEN "join"
    ELSE "begin"

\* if (this.isConnected && this.client) : report 'already connected'
AlreadyConnected == isConnected /\ client # 0

\* Variant of MustDetach that never closes the handle the session holds.
MustDetachNever == FALSE

\* if (this.client && !this.isConnected) await this.safeCloseClient('restart')
MustDetach == client # 0 /\ ~isConnected

\* The body of start() up to its first await on a timer or on I/O.
StartBody(op) ==
    IF AlreadyConnected
    THEN /\ startPc' = "delay"
         /\ UNCHANGED <<sessionVars, ws>>
         /\ last' = Step(op, "noop")
    ELSE IF MustDetach
    THEN /\ safeCloseClient
         /\ startPc' = "auth"
         /\ last' = Step(op, "detach")
    ELSE /\ startPc' = "auth"
         /\ UNCHANGED <<sessionVars, ws>>
         /\ last' = Step(op, "fresh")

\* The process runs: no rejected promise was left unhandled.
Running == startPc # "exited"

\* The callers of start() that do not catch its rejection: the controller's
\* GET / calls this.whatsapp.start() without awaiting it, and the reconnect
\* timer's callback awaits it outside any try.  onModuleInit,
\* ensureConnected and forceRefreshConnection call it inside try/catch.
Uncaught(op) == op \in {"hostStart", "timer"}

\* One call of start() by the caller op, up to the point where the caller
\* is suspended or has returned.  An attempt on the 'already connected'
\* branch awaits a timer only and does not reject.
StartCall(op) ==
    /\ Running
    /\ CASE StartEntry = "return" ->
             /\ UNCHANGED <<startVars, sessionVars, ws>>
             /\ last' = Step(op, "return")
        [] StartEntry = "join" ->
             /\ joined < MaxJoined
             /\ joined' = joined + 1
             /\ uncaught' = (uncaught \/ (Uncaught(op) /\ startPc = "auth"))
             /\ UNCHANGED <<startPromise, startPc, sessionVars, ws>>
             /\ last' = Step(op, "join")
        [] OTHER ->
             /\ startPromise' = TRUE
             /\ joined' = joined
             /\ uncaught' = (Uncaught(op) /\ ~AlreadyConnected)
             /\ StartBody(op)

\* Variant of RefreshFinally that leaves the suppression flag set.
RefreshFinallyKeepsSuppress ==
    /\ suppressReconnect' = suppressReconnect
    /\ refreshInProgress' = FALSE
    /\ refreshPc' = "idle"

\* The continuation of forceRefreshConnection after 'await this.start()':
\* finally { suppressReconnect = false; refreshInProgress = false }
RefreshFinally ==
    /\ suppressReconnect' = FALSE
    /\ refreshInProgress' = FALSE
    /\ refreshPc' = "idle"

\* try { await this.startPromise } finally { this.startPromise = null },
\* and the continuations of the callers that awaited the attempt.  When the
\* attempt rejected and one of them does not catch, the rejection is left
\* unhandled and the process ends (node 22, no 'unhandledRejection'
\* listener).
StartSettled(rejected) ==
    /\ startPromise' = FALSE
    /\ startPc' = IF rejected /\ uncaught THEN "exited" ELSE "idle"
    /\ joined' = 0
    /\ uncaught' = FALSE
    /\ IF refreshPc = "awaitStart" THEN RefreshFinally ELSE UNCHANGED refreshVars

\* The controller's GET / calls start() without awaiting it.
HostStart ==
    /\ UNCHANGED <<webhooks, pipeVars>>
    /\ StartCall("hostStart")
    /\ UNCHANGED <<clientCounter, reconnectCount, timerVars, refreshVars>>

\* After useMultiFileAuthState and fetchLatestBaileysVersion resolved:
\* makeWASocket, currentClientId = clientId, client = client, listeners.
StartCreate ==
    /\ UNCHANGED <<webhooks, pipeVars>>
    /\ startPc = "auth"
    /\ clientCounter < MaxClients
    /\ clientCounter' = clientCounter + 1
    /\ currentClientId' = clientCounter'
    /\ client' = clientCounter'
    /\ ws' = [ws EXCEPT ![clientCounter'] = "connecting"]
    /\ StartSettled(FALSE)
    /\ last' = Step("startCreate", "none")
    /\ UNCHANGED <<isConnected, reconnectCount, timerVars>>

\* The calls of the body of start() that can throw: the two awaited before
\* the client id is computed, and makeWASocket, which is called after
\* ++this.clientCounter.
Throwers ==
    {"useMultiFileAuthState", "fetchLatestBaileysVersion", "makeWASocket"}

\* One of Throwers threw: the attempt rejects and no handle is created.
\* The counter keeps the increment made before makeWASocket was called: no
\* socket carries that id, and none ever will (ws: "closed").
StartFail ==
    /\ UNCHANGED <<webhooks, pipeVars>>
    /\ startPc = "auth"
    /\ \E thrower \in Throwers :
         IF thrower = "makeWASocket"
         THEN /\ clientCounter < MaxClients
              /\ clientCounter' = clientCounter + 1
              /\ ws' = [ws EXCEPT ![clientCounter'] = "closed"]
         ELSE UNCHANGED <<clientCounter, ws>>
    /\ StartSettled(TRUE)
    /\ last' = Step("startFail", IF uncaught THEN "exit" ELSE "none")
    /\ UNCHANGED <<sessionVars, reconnectCount, timerVars>>

\* After delay(1500) of the 'already connected' branch: emit the text.
StartAlready ==
    /\ UNCHANGED <<webhooks, pipeVars>>
    /\ startPc = "delay"
    /\ StartSettled(FALSE)
    /\ last' = [Step("startAlready", "none") EXCEPT !.emit = "text"]
    /\ UNCHANGED <<sessionVars, clientCounter, reconnectCount, timerVars, ws>>

(***************************************************************************)
(* onConnectionUpdate                                                      *)
(***************************************************************************)
\* if (clientId && this.currentClientId && clientId !== this.currentClientId) return;
IgnoredAsStale(clientId) ==
    clientId # 0 /\ currentClientId # 0 /\ clientId # currentClientId

\* Variant of shouldReconnect without the retry budget.
shouldReconnectNoBudget(reason) ==
    /\ reason.statusCode # loggedOut
    /\ reason.message # "QR refs attempts ended"

\* Variant of shouldReconnect that retries after a logout.
shouldReconnectAfterLogout(reason) ==
    /\ reason.message # "QR refs attempts ended"
    /\ reconnectCount < maxConnectionAttemps

\* statusCode !== DisconnectReason.loggedOut && message !== 'QR refs attempts
\* ended' && this.reconnectCount < this.maxConnectionAttemps
shouldReconnect(reason) ==
    /\ reason.statusCode # loggedOut
    /\ reason.message # "QR refs attempts ended"
    /\ reconnectCount < maxConnectionAttemps

\* Variant of backoffDelay that indexes the table with the attempt number
\* itself (reconnectBackoffMs[n] in the source's 0-based indexing).
backoffDelayOffByOne(n) ==
    IF n + 1 \in DOMAIN reconnectBackoffMs
    THEN reconnectBackoffMs[n + 1]
    ELSE reconnectBackoffMs[Len(reconnectBackoffMs)]

\* this.reconnectBackoffMs[n - 1] ?? this.reconnectBackoffMs[length - 1]
\* (sequences are indexed from 1 here)
backoffDelay(n) ==
    IF n \in DOMAIN reconnectBackoffMs
    THEN reconnectBackoffMs[n]
    ELSE reconnectBackoffMs[Len(reconnectBackoffMs)]

\* this.reconnectTimeout = setTimeout(...): the timer referenced before, if
\* still pending, is not cleared and stays pending.
ScheduleReconnect ==
    /\ reconnectTimeout = "pending" => orphanTimers < MaxOrphanTimers
    /\ reconnectTimeout' = "pending"
    /\ orphanTimers' = IF reconnectTimeout = "pending"
                       THEN orphanTimers + 1 ELSE orphanTimers

\* if (this.reconnectTimeout) { clearTimeout(this.reconnectTimeout);
\* this.reconnectTimeout = null }
ClearReconnect ==
    /\ reconnectTimeout' = "null"
    /\ UNCHANGED orphanTimers

\* Variant of ReconnectSuppressed that never suppresses.
ReconnectSuppressedNever == FALSE

\* if (this.suppressReconnect) { this.isConnected = false; return; }
ReconnectSuppressed == suppressReconnect

\* The handler for one connection.update event of kind "qr", "open" or
\* "close" from the handle clientId.
onConnectionUpdate(kind, reason, clientId) ==
    LET seen(emit, delay) ==
            Obs(kind, clientId, currentClientId, reason, "none", emit, delay)
    IN
    IF IgnoredAsStale(clientId)
    THEN /\ UNCHANGED <<isConnected, reconnectCount, timerVars>>
         /\ last' = seen("none", 0)
    ELSE CASE kind = "qr" ->
                /\ UNCHANGED <<isConnected, reconnectCount, timerVars>>
                /\ last' = seen("qr", 0)
           [] kind = "close" /\ ReconnectSuppressed ->
                /\ isConnected' = FALSE
                /\ UNCHANGED <<reconnectCount, timerVars>>
                /\ last' = seen("none", 0)
           [] kind = "close" /\ ~ReconnectSuppressed /\ shouldReconnect(reason) ->
                /\ reconnectCount' = reconnectCount + 1
                /\ ScheduleReconnect
                /\ UNCHANGED isConnected
                /\ last' = seen("none", backoffDelay(reconnectCount'))
           [] kind = "close" /\ ~ReconnectSuppressed /\ ~shouldReconnect(reason) ->
                /\ reconnectCount' = 0
                /\ isConnected' = FALSE
                /\ UNCHANGED timerVars
                /\ last' = seen("text", 0)
           [] kind = "open" ->
                /\ reconnectCount' = 0
                /\ isConnected' = TRUE
                /\ ClearReconnect
                /\ last' = seen("text", 0)

\* A handle that is connecting shows a QR challenge.
EvQr(h) ==
    /\ UNCHANGED <<webhooks, pipeVars>>
    /\ Running
    /\ ws[h] = "connecting"
    /\ onConnectionUpdate("qr", NoReason, h)
    /\ UNCHANGED <<client, currentClientId, clientCounter, startVars, refreshVars, ws>>

\* A handle that is connecting reports open.
EvOpen(h) ==
    /\ UNCHANGED <<webhooks, pipeVars>>
    /\ Running
    /\ ws[h] = "connecting"
    /\ ws' = [ws EXCEPT ![h] = "open"]
    /\ onConnectionUpdate("open", NoReason, h)
    /\ UNCHANGED <<client, currentClientId, clientCounter, startVars, refreshVars>>

\* A handle whose socket is not yet closed reports close, once.
EvClose(h, reason) ==
    /\ UNCHANGED <<webhooks, pipeVars>>
    /\ Running
    /\ ws[h] \in {"connecting", "open", "closing", "aborting"}
    /\ ws' = [ws EXCEPT ![h] = "closed"]
    /\ onConnectionUpdate("close", reason, h)
    /\ UNCHANGED <<client, currentClientId, clientCounter, startVars, refreshVars>>

\* A pending reconnect timer fires: setTimeout(async () => { await
\* this.start() }, delay).  this.reconnectTimeout keeps referencing it.
TimerFire ==
    /\ UNCHANGED <<webhooks, pipeVars>>
    /\ \/ /\ reconnectTimeout = "pending"
          /\ reconnectTimeout' = "fired"
          /\ UNCHANGED orphanTimers
       \/ /\ orphanTimers > 0
          /\ orphanTimers' = orphanTimers - 1
          /\ UNCHANGED reconnectTimeout
    /\ StartCall("timer")
    /\ UNCHANGED <<clientCounter, reconnectCount, refreshVars>>

(***************************************************************************)
(* Inbound events                                                          *)
(***************************************************************************)
\* is.array(list): an array with at least one element
isArray(list) == Len(list) > 0

\* A handle whose socket still receives frames delivers inbound events to
\* the listeners start() registered on it: this.onCall and
\* this.onMessageUpsert, registered without the handle's id.
Receiving(h) == Running /\ ws[h] \in {"open", "closing"}

(***************************************************************************)
(* getConnectionHealth / ensureConnected                                   *)
(***************************************************************************)
\* const wsReadyStateRaw = this.client?.ws?.readyState; const wsReadyState
\* = is.number(wsReadyStateRaw) ? wsReadyStateRaw : null.  <<>> is null and
\* <<n>> the number n.  The handle is an object of the transport library:
\* its ws either exposes the socket's readyState (0 connecting, 1 open,
\* 2 closing, 3 closed) or no numeric readyState at all, and the read gives
\* one or the other.
wsReadyStates ==
    IF client = 0 THEN {<<>>}
    ELSE {<<>>,
          CASE ws[client] = "connecting" -> <<0>>
            [] ws[client] = "open" -> <<1>>
            [] ws[client] \in {"closing", "aborting"} -> <<2>>
            [] OTHER -> <<3>>}

\* const wsOpen = wsReadyState === null ? this.isConnected : wsReadyState === 1
wsOpen(wsReadyState) ==
    IF wsReadyState = <<>> THEN isConnected ELSE wsReadyState = <<1>>

\* getConnectionHealth(), for what the read of readyState gave
getConnectionHealth(wsReadyState) ==
    [alive |-> isConnected /\ client # 0 /\ wsOpen(wsReadyState),
     connected |-> isConnected,
     hasClient |-> client # 0,
     reconnectScheduled |-> reconnectTimeout # "null",
     wsReadyState |-> wsReadyState]

\* The auto-recover interval calls ensureConnected().
EnsureConnected ==
    /\ UNCHANGED <<webhooks, pipeVars>>
    /\ Running
    /\ \E wsReadyState \in wsReadyStates :
         LET health == getConnectionHealth(wsReadyState) IN
         IF health.alive
         THEN /\ UNCHANGED <<startVars, sessionVars, ws>>
              /\ last' = Step("ensure", "already_alive")
         ELSE IF health.reconnectScheduled
         THEN /\ UNCHANGED <<startVars, sessionVars, ws>>
              /\ last' = Step("ensure", "reconnect_scheduled")
         ELSE StartCall("ensure")
    /\ UNCHANGED <<clientCounter, reconnectCount, timerVars, refreshVars>>

(***************************************************************************)
(* forceRefreshConnection                                                  *)
(***************************************************************************)
\* The refresh interval calls forceRefreshConnection(): up to delay(1000).
RefreshBegin ==
    /\ UNCHANGED <<webhooks, pipeVars>>
    /\ Running
    /\ IF client = 0 \/ refreshInProgress
       THEN /\ last' = Step("refresh", "return")
            /\ UNCHANGED <<sessionVars, clientCounter, reconnectCount, timerVars,
                           startVars, refreshVars, ws>>
       ELSE /\ refreshInProgress' = TRUE
            /\ suppressReconnect' = TRUE
            /\ ClearReconnect
            /\ safeCloseClient
            /\ reconnectCount' = 0
            /\ refreshPc' = "delay"
            /\ last' = Step("refresh", "closed")
            /\ UNCHANGED <<clientCounter, startVars>>

\* After delay(1000): try { await this.start() } finally { flags cleared }.
RefreshResume ==
    /\ UNCHANGED <<webhooks, pipeVars>>
    /\ refreshPc = "delay"
    /\ StartCall("refreshResume")
    /\ IF StartEntry = "return"
       THEN RefreshFinally
       ELSE /\ refreshPc' = "awaitStart"
            /\ UNCHANGED <<refreshInProgress, suppressReconnect>>
    /\ UNCHANGED <<clientCounter, reconnectCount, timerVars>>

(***************************************************************************)
(* Inbound messages: numbers, identifiers and the drop rules               *)
(***************************************************************************)
\* A millisecond count n is held as <<n \div 10^6, n % 10^6>>: the values
\* around Date.now() (about 1.7 * 10^12) do not fit a machine integer of the
\* checker.  JavaScript's doubles are exact on every value used here.
BigGT(a, b) == a[1] > b[1] \/ (a[1] = b[1] /\ a[2] > b[2])

\* a + n for 0 <= n < 10^6
BigPlus(a, n) ==
    <<a[1] + (a[2] + n) \div 1000000, (a[2] + n) % 1000000>>

\* a * 1000
BigTimes1000(a) ==
    <<a[1] * 1000 + (a[2] * 1000) \div 1000000, (a[2] * 1000) % 1000000>>

BigZero == <<0, 0>>

\* private readonly maxWebhookMessageAgeMs = 60_000
maxWebhookMessageAgeMs == 60000

\* 1_000_000_000_000: the value above which a timestamp is in milliseconds
MsThreshold == <<1000000, 0>>

\* value > 1_000_000_000_000 ? value : value * 1000
SecondsOrMs(value) ==
    IF BigGT(value, MsThreshold) THEN value ELSE BigTimes1000(value)

\* getMessageTimestampMs(value).  A timestamp is [kind, n]: "undefined"
\* (absent or null), "number", "string" (a numeric string; a string that is
\* not a finite number has kind "text") or "long" (an object with
\* toNumber()).  A string that is not positive gives 0.
getMessageTimestampMs(value) ==
    CASE value.kind = "number" -> SecondsOrMs(value.n)
      [] value.kind = "string" ->
           IF BigGT(value.n, BigZero) THEN SecondsOrMs(value.n) ELSE BigZero
      [] value.kind = "long" -> SecondsOrMs(value.n)
      [] OTHER -> BigZero

\* Variant of isMessageOlderThanMaxAge whose boundary is inclusive.
isMessageOlderThanMaxAgeInclusive(message) ==
    LET timestampMs == getMessageTimestampMs(message.messageTimestamp) IN
    IF timestampMs = BigZero THEN FALSE
    ELSE ~BigGT(BigPlus(timestampMs, maxWebhookMessageAgeMs), now)

\* if (timestampMs === 0) return false;
\* return Date.now() - timestampMs > this.maxWebhookMessageAgeMs;
isMessageOlderThanMaxAge(message) ==
    LET timestampMs == getMessageTimestampMs(message.messageTimestamp) IN
    IF timestampMs = BigZero THEN FALSE
    ELSE BigGT(now, BigPlus(timestampMs, maxWebhookMessageAgeMs))

\* The chat identifiers of the model, with the server part of each (the
\* text after '@') and its lower-case form.
Jids ==
    { "111@s.whatsapp.net", "222@s.whatsapp.net", "333@G.US",
      "status@broadcast", "444@broadcast", "555@newsletter", "666@c.us" }

JidServer(jid) ==
    CASE jid \in {"111@s.whatsapp.net", "222@s.whatsapp.net",
                  "666@s.whatsapp.net"} -> "s.whatsapp.net"
      [] jid \in {"666@c.us"} -> "c.us"
      [] jid \in {"333@G.US"} -> "G.US"
      [] jid \in {"333@g.us"} -> "g.us"
      [] jid \in {"status@broadcast", "444@broadcast"} -> "broadcast"
      [] jid \in {"555@newsletter"} -> "newsletter"
      [] OTHER -> ""

toLowerCase(str) == IF str = "333@G.US" THEN "333@g.us" ELSE str

\* The transport library's identifier tests.
isJidStatusBroadcast(jid) == jid = "status@broadcast"
isJidNewsletter(jid) == JidServer(jid) = "newsletter"
isJidBroadcast(jid) == JidServer(jid) = "broadcast"

\* Variant of BroadcastOrigin without the newsletter test.
BroadcastOriginWithoutNewsletter(from) ==
    isJidStatusBroadcast(from) \/ isJidBroadcast(from)

\* isJidStatusBroadcast(from) || isJidNewsletter(from) || isJidBroadcast(from)
BroadcastOrigin(from) ==
    isJidStatusBroadcast(from) \/ isJidNewsletter(from) \/ isJidBroadcast(from)

\* Variant of isAuthorizedMessage that compares the identifiers as they
\* are, without toLowerCase().
isAuthorizedMessageCaseSensitive(message) ==
    LET from == message.remoteJid
        participant == message.participant
    IN  \/ authorizedWhatsAppIds = {}
        \/ from # "" /\ from \in authorizedWhatsAppIds
        \/ participant # "" /\ participant \in authorizedWhatsAppIds

\* isAuthorizedMessage(message)
isAuthorizedMessage(message) ==
    LET from == toLowerCase(message.remoteJid)
        participant == toLowerCase(message.participant)
    IN  \/ authorizedWhatsAppIds = {}
        \/ from # "" /\ from \in authorizedWhatsAppIds
        \/ participant # "" /\ participant \in authorizedWhatsAppIds

\* Variant of normalizeJid that leaves every identifier as it is.
normalizeJidKeepsSuffix(jid) == jid

\* normalizeJid(jid): if (jid.endsWith('@c.us')) return
\* jid.replace('@c.us', '@s.whatsapp.net'); return jid
normalizeJid(jid) ==
    IF JidServer(jid) = "c.us"
    THEN CASE jid = "666@c.us" -> "666@s.whatsapp.net"
    ELSE jid

\* getMediaMimeType(item) !== '' : the message is a media container that
\* carries a mimetype.
HasMedia(item) == item.message \in {"audioMessage", "imageMessage"}

\* getMediaType(item), for a message with a mimetype; 'text' without one.
MessageType(item) ==
    CASE item.message = "audioMessage" -> "audio"
      [] item.message = "imageMessage" -> "image"
      [] OTHER -> "text"

\* let message = to.string(item?.message?.conversation); if (message === '')
\* message = to.string(item?.message?.extendedTextMessage?.text): the text
\* of a text message, '' for a message that carries none (a media
\* container, a location).
MessageText(item) == IF item.message = "conversation" THEN "hello" ELSE ""

\* media.base64 = mediaBuffer.toString('base64') of the downloaded media
MediaBase64(item) == IF HasMedia(item) THEN "T2dnUw==" ELSE ""

\* webhookPayload: { from, type: 'audio', media } for type 'audio',
\* { from, message } otherwise.
webhookPayload(item) ==
    IF MessageType(item) = "audio"
    THEN [keys |-> {"from", "type", "media"}, from |-> item.remoteJid,
          type |-> "audio", message |-> "", base64 |-> MediaBase64(item)]
    ELSE [keys |-> {"from", "message"}, from |-> item.remoteJid,
          type |-> "", message |-> MessageText(item), base64 |-> ""]

\* The drop rules of onMessageUpsert in the order of the source, up to the
\* media download: what the loop does with the item ("return" leaves the
\* callback, "continue" goes to the next item, "proceed" goes on with this
\* item) and the rule that decided.
Filter(item) ==
    CASE item.message = "undefined" ->
           [flow |-> "continue", rule |-> "empty"]
      [] item.message # "undefined" /\ BroadcastOrigin(item.remoteJid) ->
           [flow |-> "return", rule |-> "origin"]
      [] OTHER ->
           IF item.fromMe THEN [flow |-> "continue", rule |-> "self"]
           ELSE IF ~isAuthorizedMessage(item)
                THEN [flow |-> "continue", rule |-> "allowlist"]
           ELSE IF isMessageOlderThanMaxAge(item)
                THEN [flow |-> "continue", rule |-> "stale"]
           ELSE [flow |-> "proceed", rule |-> "none"]

(***************************************************************************)
(* Inbound messages: the queue and the batch callback                      *)
(***************************************************************************)
\* What one uninterrupted run of the callback did: log holds an entry for
\* every item the run examined, with what the loop did with it: the
\* rule that dropped it ("empty", "origin", "self", "allowlist", "stale",
\* "media"), "threw" when a call on this.client threw at once and the catch
\* logged it, "rejected" when the callback ended with an error, "done" when
\* the item's cycle finished, or the await the item is suspended at.
Ran(j, q, log) == [job |-> j, queue |-> q, log |-> log]

\* A log entry about the item j.k: the batch, the item, what was done with
\* it and the length of the batch.
Entry(j, what) == <<j.id, j.k, what, Len(j.batch)>>

\* Variant of Dequeue that takes the batch that arrived last.
DequeueNewest(queue) == queue[Len(queue)]

\* messageQueue.then(callback): the callbacks run in the order they were
\* chained.
Dequeue(queue) == Head(queue)

RemoveFrom(queue, entry) ==
    SelectSeq(queue, LAMBDA e : e # entry)

RECURSIVE Loop(_, _, _, _)
RECURSIVE Settle(_, _, _, _)

\* The item j.k passed the drop rules and its media, if any, is downloaded:
\* if (type !== 'text' && type !== 'audio') continue; otherwise try { await
\* this.client.sendPresenceUpdate('composing', ...) }.  c is this.client.
Compose(j, q, log, c) ==
    LET item == j.batch[j.k] IN
    IF MessageType(item) \notin {"text", "audio"}
    THEN Loop([j EXCEPT !.k = @ + 1], q, log \cup {Entry(j, "media")}, c)
    ELSE IF c = 0
    THEN Loop([j EXCEPT !.k = @ + 1], q, log \cup {Entry(j, "threw")}, c)
    ELSE Ran([j EXCEPT !.pc = "composing", !.reply = "",
                       !.jid = normalizeJid(item.remoteJid),
                       !.payload = webhookPayload(item)], q,
             log \cup {Entry(j, "composing")})

\* for (const item of messages) { ... } from item j.k on, up to the next
\* await or the end of the callback.
Loop(j, q, log, c) ==
    IF j.k > Len(j.batch) THEN Settle(j.id, q, log, c)
    ELSE LET item == j.batch[j.k]
             f == Filter(item)
         IN
         CASE f.flow = "return" ->
                Settle(j.id, q, log \cup {Entry(j, f.rule)}, c)
           [] f.flow = "continue" ->
                Loop([j EXCEPT !.k = @ + 1], q,
                     log \cup {Entry(j, f.rule)}, c)
           [] OTHER ->
                IF HasMedia(item)
                THEN Ran([j EXCEPT !.pc = "download"], q,
                         log \cup {Entry(j, "download")})
                ELSE Compose(j, q, log, c)

\* The callback of batch id has settled (the .catch makes a rejection a
\* resolution): the next chained callback begins.  const webhooks =
\* this.webhook.get(); if (is.array(webhooks)) for (...)
Settle(id, q, log, c) ==
    IF q = <<>> THEN Ran(IdleJob(id), q, log)
    ELSE LET next == Dequeue(q)
             rest == RemoveFrom(q, next)
         IN
         IF isArray(webhooks)
         THEN Loop([pc |-> "run", id |-> next.id, batch |-> next.messages,
                    k |-> 1, list |-> webhooks, reply |-> "", jid |-> "",
                    payload |-> NoPayload, log |-> {}],
                   rest, log, c)
         ELSE Settle(next.id, rest, log, c)

\* The observation of a pipeline step: the await that resumed (or "upsert"),
\* the batch and item it resumed, how the await ended, the handle a
\* transport call was made on, the number of webhook POSTs made and, for
\* "upsert", the batch that arrived.
Did(op, j, outcome, used, posts) ==
    [op |-> op, id |-> j.id, k |-> j.k, outcome |-> outcome, used |-> used,
     posts |-> posts, h |-> 0, cur |-> currentClientId, messages |-> <<>>]

\* The step ends in the state the run r has left.
Rest(r) ==
    /\ job' = [r.job EXCEPT !.log = r.log]
    /\ messageQueue' = r.queue

\* Everything a pipeline step that calls neither start() nor the registry
\* leaves alone.
pipeFrame ==
    <<sessionVars, clientCounter, reconnectCount, timerVars, startVars,
      refreshVars, ws, webhooks, authorizedWhatsAppIds, now, dispatch,
      sending, lifecycle>>

\* onMessageUpsert for a non-empty batch from the handle h: the callback is
\* chained on messageQueue.  On a settled chain it begins at once.
Upsert(h, messages) ==
    /\ Receiving(h)
    /\ job.id + Len(messageQueue) < MaxBatches
    /\ LET entry == [id |-> job.id + Len(messageQueue) + 1,
                     messages |-> messages]
       IN  IF job.pc = "idle"
           THEN Rest(Settle(job.id, <<entry>>, {}, client))
           ELSE Rest(Ran(job, Append(messageQueue, entry), {}))
    /\ last' = [Did("upsert", job, "none", 0, 0)
                   EXCEPT !.h = h, !.messages = messages]
    /\ UNCHANGED pipeFrame

\* Variant of Downloaded without the .catch() of the chain: the rejection
\* is passed on, and the callbacks chained behind it never run.
DownloadedBreaksChain ==
    /\ job.pc = "download"
    /\ \/ /\ Rest(Compose(job, messageQueue, {}, client))
          /\ last' = Did("download", job, "ok", 0, 0)
       \/ /\ Rest(Ran([job EXCEPT !.pc = "rejected"], messageQueue,
                      {Entry(job, "rejected")}))
          /\ last' = Did("download", job, "error", 0, 0)
    /\ UNCHANGED pipeFrame

\* await downloadMediaMessage(item, 'buffer', {}) resolves, or rejects: the
\* call stands outside the try, so the rejection ends the callback.
Downloaded ==
    /\ job.pc = "download"
    /\ \/ /\ Rest(Compose(job, messageQueue, {}, client))
          /\ last' = Did("download", job, "ok", 0, 0)
       \/ /\ Rest(Settle(job.id, messageQueue,
                         {Entry(job, "rejected")}, client))
          /\ last' = Did("download", job, "error", 0, 0)
    /\ UNCHANGED pipeFrame

\* await this.client.sendPresenceUpdate('composing', ...) resolves: the
\* callback calls webhook.sendWithResponse(webhooks, payload).  Or rejects:
\* the catch logs and the loop goes on.
Composed ==
    /\ job.pc = "composing"
    /\ \/ /\ Rest(Ran([job EXCEPT !.pc = "dispatch"], messageQueue,
                      {Entry(job, "dispatch")}))
          /\ last' = Did("composing", job, "ok", 0, 0)
       \/ /\ Rest(Loop([job EXCEPT !.k = @ + 1], messageQueue,
                       {Entry(job, "threw")}, client))
          /\ last' = Did("composing", job, "error", 0, 0)
    /\ UNCHANGED pipeFrame

\* The replies a subscriber may give: none (or a failed call), or a text.
Replies == {"", "pong"}

\* The first non-empty reply of the responses, '' without one.
RECURSIVE FirstReply(_)
FirstReply(responses) ==
    IF responses = <<>> THEN ""
    ELSE IF Head(responses) # "" THEN Head(responses)
    ELSE FirstReply(Tail(responses))

\* The values of Date.now() - webhookStart after the dispatch and the
\* mark-read call (line 374), in milliseconds: the subscribers answered
\* fast, or took longer than the cycle.
Elapsed == {200, 1200}

\* The length the cycle of one message is padded to.
cycleMs == 1000

\* await this.client.sendPresenceUpdate('paused', ...) is called on c
\* (this.client): with no handle the call throws, the catch logs it and the
\* loop goes on with the next item.
Pause(j, q, c) ==
    IF c = 0
    THEN Loop([j EXCEPT !.k = @ + 1], q, {Entry(j, "threw")}, c)
    ELSE Ran([j EXCEPT !.pc = "paused"], q, {Entry(j, "paused")})

\* const elapsed = Date.now() - webhookStart; if (elapsed < 1000) await
\* delay(1000 - elapsed); otherwise the 'paused' call is made in the same
\* run.
AfterRead(j, q, c, elapsed) ==
    IF elapsed < cycleMs
    THEN Ran([j EXCEPT !.pc = "pad"], q, {Entry(j, "pad")})
    ELSE Pause(j, q, c)

\* Variant of Dispatched that POSTs to the subscribers the registry holds
\* when the dispatch is made.
DispatchedToRegistry ==
    /\ job.pc = "dispatch"
    /\ \E responses \in [DOMAIN webhooks -> Replies], elapsed \in Elapsed :
         LET j == [job EXCEPT !.reply = FirstReply(responses)] IN
         /\ IF client = 0
            THEN Rest(AfterRead(j, messageQueue, client, elapsed))
            ELSE Rest(Ran([j EXCEPT !.pc = "read"], messageQueue,
                          {Entry(job, "read")}))
         /\ last' = Did("dispatch", job, "ok", client, Len(webhooks))
    /\ UNCHANGED pipeFrame

\* sendWithResponse has POSTed to every subscriber of job.list and returns
\* one response each; then try { await this.client.readMessages(...) }.
\* With no handle the call throws, the inner catch logs it, and the run
\* goes on to the elapsed test.
Dispatched ==
    /\ job.pc = "dispatch"
    /\ \E responses \in [DOMAIN job.list -> Replies], elapsed \in Elapsed :
         LET j == [job EXCEPT !.reply = FirstReply(responses)] IN
         /\ IF client = 0
            THEN Rest(AfterRead(j, messageQueue, client, elapsed))
            ELSE Rest(Ran([j EXCEPT !.pc = "read"], messageQueue,
                          {Entry(job, "read")}))
         /\ last' = Did("dispatch", job, "ok", client, Len(job.list))
    /\ UNCHANGED pipeFrame

\* await this.client.readMessages(...) resolves or rejects (logged); the
\* reply is picked and the elapsed time is tested.
ReadDone ==
    /\ job.pc = "read"
    /\ \E elapsed \in Elapsed, outcome \in {"ok", "error"} :
         /\ Rest(AfterRead(job, messageQueue, client, elapsed))
         /\ last' = Did("read", job, outcome,
                        IF elapsed < cycleMs THEN 0 ELSE client, 0)
    /\ UNCHANGED pipeFrame

\* After delay(1000 - elapsed): await
\* this.client.sendPresenceUpdate('paused', ...).
Padded ==
    /\ job.pc = "pad"
    /\ Rest(Pause(job, messageQueue, client))
    /\ last' = Did("pad", job, "ok", client, 0)
    /\ UNCHANGED pipeFrame

\* The 'paused' presence call resolves (then await delay(250)) or rejects.
Paused ==
    /\ job.pc = "paused"
    /\ \/ /\ Rest(Ran([job EXCEPT !.pc = "delay"], messageQueue,
                      {Entry(job, "delay")}))
          /\ last' = Did("paused", job, "ok", 0, 0)
       \/ /\ Rest(Loop([job EXCEPT !.k = @ + 1], messageQueue,
                       {Entry(job, "threw")}, client))
          /\ last' = Did("paused", job, "error", 0, 0)
    /\ UNCHANGED pipeFrame

\* The item's cycle is over: the loop goes on with the next item.
ItemDone(c) ==
    Rest(Loop([job EXCEPT !.k = @ + 1], messageQueue,
              {Entry(job, "done")}, c))

\* sendMessage after its ensureConnected(): if (!this.client) return {};
\* return await this.client.sendMessage(chatId, content, options)
AfterEnsure(c, sendPc) ==
    IF c = 0 THEN ItemDone(c)
    ELSE Rest(Ran([job EXCEPT !.pc = sendPc], messageQueue,
                  {Entry(job, sendPc)}))

\* await this.ensureConnected() inside sendMessage: nothing to do when the
\* session is alive or a reconnect is scheduled; otherwise start(), whose
\* attempt the callback awaits at waitPc.
EnsureThen(op, waitPc, sendPc) ==
    \E wsReadyState \in wsReadyStates :
      LET health == getConnectionHealth(wsReadyState) IN
      IF health.alive \/ health.reconnectScheduled
      THEN /\ AfterEnsure(client, sendPc)
           /\ last' = Did(op, job, "ensured", 0, 0)
           /\ UNCHANGED <<sessionVars, startVars, ws>>
      ELSE /\ StartCall(op)
           /\ IF StartEntry = "return"
              THEN AfterEnsure(client, sendPc)
              ELSE Rest(Ran([job EXCEPT !.pc = waitPc], messageQueue,
                            {Entry(job, waitPc)}))

\* After delay(250): if (replyMsg !== '') await this.sendMessage({ chatId:
\* from, text: replyMsg }), up to its first await: if (!this.client ||
\* !this.isConnected) await this.ensureConnected()
Delayed ==
    /\ job.pc = "delay"
    /\ IF job.reply = ""
       THEN /\ ItemDone(client)
            /\ last' = Did("delay", job, "noreply", 0, 0)
            /\ UNCHANGED <<sessionVars, startVars, ws>>
       ELSE IF client # 0 /\ isConnected
       THEN /\ AfterEnsure(client, "send")
            /\ last' = Did("delay", job, "reply", 0, 0)
            /\ UNCHANGED <<sessionVars, startVars, ws>>
       ELSE EnsureThen("reply", "ensure", "send")
    /\ UNCHANGED <<clientCounter, reconnectCount, timerVars, refreshVars,
                   webhooks, authorizedWhatsAppIds, now, dispatch, sending, lifecycle>>

\* The start() attempt ensureConnected() awaited has settled.
Ensured ==
    /\ job.pc \in {"ensure", "reensure"}
    /\ ~startPromise
    /\ AfterEnsure(client, IF job.pc = "ensure" THEN "send" ELSE "resend")
    /\ last' = Did(job.pc, job, "settled", 0, 0)
    /\ UNCHANGED pipeFrame

\* await this.client.sendMessage(...) resolves, or rejects: with an error
\* of the 'connection closed' / 'not connected' class sendMessage asks
\* ensureConnected() once and sends again if a handle exists; any other
\* error is logged.
Sent ==
    /\ job.pc = "send"
    /\ \/ /\ ItemDone(client)
          /\ \E outcome \in {"ok", "error"} :
               last' = Did("send", job, outcome, 0, 0)
          /\ UNCHANGED <<sessionVars, startVars, ws>>
       \/ EnsureThen("retry", "reensure", "resend")
    /\ UNCHANGED <<clientCounter, reconnectCount, timerVars, refreshVars,
                   webhooks, authorizedWhatsAppIds, now, dispatch, sending, lifecycle>>

\* The second client.sendMessage resolves or rejects (logged).
Resent ==
    /\ job.pc = "resend"
    /\ ItemDone(client)
    /\ \E outcome \in {"ok", "error"} :
         last' = Did("resend", job, outcome, 0, 0)
    /\ UNCHANGED pipeFrame

\* The steps of the batch callback.
Worker ==
    \/ Downloaded
    \/ Composed
    \/ Dispatched
    \/ ReadDone
    \/ Padded
    \/ Paused
    \/ Delayed
    \/ Ensured
    \/ Sent
    \/ Resent

Next ==
    \/ HostStart
    \/ StartCreate
    \/ StartFail
    \/ StartAlready
    \/ \E h \in Handles : EvQr(h)
    \/ \E h \in Handles : EvOpen(h)
    \/ \E h \in Handles, r \in CloseReasons : EvClose(h, r)
    \/ TimerFire
    \/ EnsureConnected
    \/ RefreshBegin
    \/ RefreshResume

Spec == Init /\ [][Next]_vars

(***************************************************************************)
(* The inbound pipeline on a session that holds an open handle, or whose   *)
(* handle was detached while its socket still receives                     *)
(***************************************************************************)
\* messageTimestamp of a message sent 10 s before the clock of PipelineInit
\* (in seconds, as the transport gives it)
FreshTimestamp == [kind |-> "number", n |-> <<1700, 90>>]

Message(remoteJid, fromMe, message) ==
    [remoteJid |-> remoteJid, fromMe |-> fromMe, participant |-> "",
     messageTimestamp |-> FreshTimestamp, message |-> message]

\* The messages of the pipeline runs: a text of a contact, a newsletter
\* post, a text the account itself sent, and an image of a contact.
Inbox ==
    { Message("111@s.whatsapp.net", FALSE, "conversation"),
      Message("555@newsletter", FALSE, "conversation"),
      Message("111@s.whatsapp.net", TRUE, "conversation"),
      Message("111@s.whatsapp.net", FALSE, "imageMessage") }

\* The batches of the pipeline runs: one message, or one message followed
\* by a text of a contact.  A newsletter post ends its batch, so it is only
\* taken with a message behind it.
Batches ==
    { <<m>> : m \in { n \in Inbox : ~BroadcastOrigin(n.remoteJid) } } \cup
    { <<m, Message("111@s.whatsapp.net", FALSE, "conversation")>> : m \in Inbox }

\* The sessions the pipeline runs start from.  "connected": the session
\* holds the open handle 1.  "detached": it has detached handle 1
\* (safeCloseClient called ws.close()) and the socket has not yet reported
\* closed.  "restarted": as "detached", and a later start() has created
\* handle 2, which has not opened yet.
Sessions ==
    { [client |-> 1, isConnected |-> TRUE, clientCounter |-> 1,
       ws |-> [h \in Handles |-> IF h = 1 THEN "open" ELSE "none"]],
      [client |-> 0, isConnected |-> FALSE, clientCounter |-> 1,
       ws |-> [h \in Handles |-> IF h = 1 THEN "closing" ELSE "none"]],
      [client |-> 2, isConnected |-> FALSE, clientCounter |-> 2,
       ws |-> [h \in Handles |->
                 CASE h = 1 -> "closing" [] h = 2 -> "connecting"
                   [] OTHER -> "none"]] }

\* A session of Sessions with nothing in progress.  In the runs that start
\* here a handle the session holds with isConnected true has an open socket
\* (no connection event arrives), so that the health report is the same
\* whether or not the handle exposes a numeric readyState.
SessionOfSessions ==
    /\ \E s \in Sessions :
         /\ client = s.client
         /\ currentClientId = s.client
         /\ isConnected = s.isConnected
         /\ clientCounter = s.clientCounter
         /\ ws = s.ws
    /\ reconnectCount = 0
    /\ reconnectTimeout = "null"
    /\ orphanTimers = 0
    /\ startPromise = FALSE
    /\ startPc = "idle"
    /\ joined = 0
    /\ uncaught = FALSE
    /\ refreshInProgress = FALSE
    /\ suppressReconnect = FALSE
    /\ refreshPc = "idle"
    /\ last = Step("init", "none")
    /\ PipelineInit

\* No connection event arrives and no timer fires during a pipeline run.
InitPipeline ==
    /\ SessionOfSessions
    /\ webhooks \in Registries

NextPipeline ==
    \/ \E h \in Handles, b \in Batches : Upsert(h, b)
    \/ Worker
    \/ StartCreate
    \/ StartFail

SpecPipeline == InitPipeline /\ [][NextPipeline]_vars

\* The queue on a connected session with one subscriber: the batches are
\* an image of a contact, whose download may fail, and a text of a contact.
QueueBatches ==
    { <<Message("111@s.whatsapp.net", FALSE, "imageMessage")>>,
      <<Message("111@s.whatsapp.net", FALSE, "conversation")>> }

InitQueue ==
    /\ InitPipeline
    /\ client = 1
    /\ webhooks = <<"https://a">>

\* The steps of the callback on a session that stays connected.
Awaited ==
    \/ Downloaded
    \/ Composed
    \/ Dispatched
    \/ ReadDone
    \/ Padded
    \/ Paused
    \/ Delayed
    \/ Sent
    \/ Resent

NextQueue ==
    \/ \E b \in QueueBatches : Upsert(1, b)
    \/ Awaited

\* Every await of the callback settles (the transport calls, the timers of
\* delay() and the dispatch to the subscribers) and the continuation of a
\* settled await runs.
SpecQueueFair == InitQueue /\ [][NextQueue]_vars /\ WF_vars(Awaited)

(***************************************************************************)
(* One inbound message of any kind on a connected session                  *)
(***************************************************************************)
\* The messageTimestamp values of the filter runs.  Against the clock
\* 1 700 000 100 000: 61 s, 60 s and 59 s old in seconds; 60 001, 60 000
\* and 59 999 ms old in milliseconds; 10^12 and 10^12 + 1; 0; the same as
\* numeric strings and as Long objects; a string that is no number; none.
Timestamps ==
    { [kind |-> "number", n |-> <<1700, 39>>],
      [kind |-> "number", n |-> <<1700, 40>>],
      [kind |-> "number", n |-> <<1700, 41>>],
      [kind |-> "number", n |-> <<1700000, 39999>>],
      [kind |-> "number", n |-> <<1700000, 40000>>],
      [kind |-> "number", n |-> <<1700000, 40001>>],
      [kind |-> "number", n |-> <<1000000, 0>>],
      [kind |-> "number", n |-> <<1000000, 1>>],
      [kind |-> "number", n |-> <<0, 0>>],
      [kind |-> "string", n |-> <<1700, 39>>],
      [kind |-> "string", n |-> <<0, 0>>],
      [kind |-> "long", n |-> <<1700, 40>>],
      [kind |-> "text", n |-> <<0, 0>>],
      [kind |-> "undefined", n |-> <<0, 0>>] }

\* Date.now() when the batch is processed
Clocks == { <<1700000, 100000>>, <<1700000, 100001>> }

\* The settings of AUTHORIZED_WHATSAPP_IDS, each as the pieces
\* raw.split(/[\n,;]+/) gives: unset or '' (one empty piece), one id, a
\* list with an upper-case id and a blank piece, an id between blanks.
AllowlistSettings ==
    { <<"">>, <<"111@s.whatsapp.net">>,
      <<"333@G.US", " ", "status@broadcast", "444@broadcast",
        "555@newsletter">>,
      <<" 222@s.whatsapp.net ">> }

\* value.trim() on those pieces
trimId(value) ==
    CASE value = " " -> ""
      [] value = " 222@s.whatsapp.net " -> "222@s.whatsapp.net"
      [] OTHER -> value

\* parseAuthorizedWhatsAppIds(raw): the set of the trimmed pieces that are
\* not '', in lower case
parseAuthorizedWhatsAppIds(pieces) ==
    { toLowerCase(trimId(pieces[i])) :
        i \in { j \in DOMAIN pieces : trimId(pieces[j]) # "" } }

\* this.authorizedWhatsAppIds as the constructor sets it
Allowlists == { parseAuthorizedWhatsAppIds(raw) : raw \in AllowlistSettings }

AnyMessage ==
    [remoteJid : Jids, fromMe : BOOLEAN,
     participant : {"", "222@s.whatsapp.net"},
     messageTimestamp : Timestamps,
     message : {"undefined", "conversation", "audioMessage", "imageMessage",
                "locationMessage"}]

\* The session holds the open handle 1, one subscriber is registered.
InitFilter ==
    /\ client = 1 /\ currentClientId = 1 /\ isConnected = TRUE
    /\ clientCounter = 1
    /\ ws = [h \in Handles |-> IF h = 1 THEN "open" ELSE "none"]
    /\ reconnectCount = 0
    /\ reconnectTimeout = "null"
    /\ orphanTimers = 0
    /\ startPromise = FALSE
    /\ startPc = "idle"
    /\ joined = 0
    /\ uncaught = FALSE
    /\ refreshInProgress = FALSE
    /\ suppressReconnect = FALSE
    /\ refreshPc = "idle"
    /\ last = Step("init", "none")
    /\ webhooks = <<"https://a">>
    /\ authorizedWhatsAppIds \in Allowlists
    /\ now \in Clocks
    /\ messageQueue = <<>>
    /\ job = IdleJob(0)
    /\ dispatch = IdleDispatch
    /\ sending = IdleSending
    /\ lifecycle = Constructed(Unset, Unset, Unset, Unset, FALSE)

\* One batch of one message arrives and is processed.
NextFilter ==
    \/ \E m \in AnyMessage : job.id = 0 /\ job.pc = "idle" /\ Upsert(1, <<m>>)
    \/ Downloaded
    \/ Composed
    \/ Dispatched
    \/ ReadDone
    \/ Padded
    \/ Paused
    \/ Delayed
    \/ Sent
    \/ Resent

SpecFilter == InitFilter /\ [][NextFilter]_vars

(***************************************************************************)
(* The subscriber registry: WebhookService.get / insert / delete / save    *)
(***************************************************************************)
\* A string is a sequence of characters.  The URLs a host may post: plain
\* ones, ones with blanks or line breaks around them, blank ones, and ones
\* with a line break inside.
Urls ==
    { <<"a">>, <<"b">>, <<"c">>, <<" ", "a">>, <<"b", " ", "\n">>, <<>>,
      <<" ">>, <<"\n">>, <<"a", "\n", "b">>, <<"c", "\n", "\n", "a">> }

\* String.prototype.trim(): blanks and line breaks are white space
RECURSIVE trimStart(_)
trimStart(str) ==
    IF str # <<>> /\ Head(str) \in {" ", "\n"} THEN trimStart(Tail(str))
    ELSE str

RECURSIVE trimEnd(_)
trimEnd(str) ==
    IF str # <<>> /\ str[Len(str)] \in {" ", "\n"}
    THEN trimEnd(SubSeq(str, 1, Len(str) - 1))
    ELSE str

trim(str) == trimEnd(trimStart(str))

\* strings.join('\n')
RECURSIVE join(_)
join(strings) ==
    IF strings = <<>> THEN <<>>
    ELSE IF Len(strings) = 1 THEN strings[1]
    ELSE strings[1] \o <<"\n">> \o join(Tail(strings))

\* content.split('\n'): piece is the segment read so far
RECURSIVE split(_, _)
split(content, piece) ==
    IF content = <<>> THEN <<piece>>
    ELSE IF Head(content) = "\n" THEN <<piece>> \o split(Tail(content), <<>>)
    ELSE split(Tail(content), Append(piece, Head(content)))

\* get(): content ? content.split('\n').filter(Boolean) : []
get(content) ==
    IF content = <<>> THEN <<>>
    ELSE SelectSeq(split(content, <<>>), LAMBDA line : line # <<>>)

\* save(strings) writes strings.join('\n'); the registry is what get()
\* reads back from the file.
save(strings) == get(join(strings))

includes(data, str) == \E i \in DOMAIN data : data[i] = str

\* strings.splice(index, 1), index counted from 0
splice(strings, index) ==
    SubSeq(strings, 1, index) \o SubSeq(strings, index + 2, Len(strings))

\* The observation of a registry operation.
Registered(op, arg, outcome) ==
    [op |-> op, arg |-> arg, outcome |-> outcome, h |-> 0, cur |-> 0]

\* insert(url)
insert(url) ==
    LET normalized == trim(url) IN
    IF normalized = <<>>
    THEN /\ UNCHANGED webhooks
         /\ last' = Registered("insert", url, "empty")
    ELSE IF includes(webhooks, normalized)
    THEN /\ UNCHANGED webhooks
         /\ last' = Registered("insert", url, "present")
    ELSE /\ webhooks' = save(Append(webhooks, normalized))
         /\ last' = Registered("insert", url, "saved")

\* delete(index): what it signals and the registry it leaves
delete(index) ==
    IF index < 0 \/ index >= Len(webhooks)
    THEN [outcome |-> "not_found", strings |-> webhooks]
    ELSE [outcome |-> "saved", strings |-> save(splice(webhooks, index))]

registryFrame ==
    <<sessionVars, clientCounter, reconnectCount, timerVars, startVars,
      refreshVars, ws, pipeVars>>

Insert(url) ==
    /\ insert(url)
    /\ Len(webhooks') <= MaxRegistry
    /\ UNCHANGED registryFrame

Delete(index) ==
    /\ webhooks' = delete(index).strings
    /\ last' = Registered("delete", index, delete(index).outcome)
    /\ UNCHANGED registryFrame

\* controllerDeleteWebhooks(index): index is the host's, counted from 1
controllerDeleteWebhooks(index) ==
    LET noIndex == IF index > 0 THEN index - 1 ELSE index IN
    /\ webhooks' = delete(noIndex).strings
    /\ last' = Registered("controllerDeleteWebhooks", index,
                          delete(noIndex).outcome)
    /\ UNCHANGED registryFrame

NextRegistry ==
    \/ \E url \in Urls : Insert(url)
    \/ \E index \in -1..MaxRegistry : Delete(index)
    \/ \E index \in -1..(MaxRegistry + 1) : controllerDeleteWebhooks(index)

SpecRegistry == Init /\ [][NextRegistry]_vars

(***************************************************************************)
(* The registry changing while batches are processed                       *)
(***************************************************************************)
\* The URLs the host inserts while batches are processed.
HostUrls == { <<"a">>, <<"b">> }

\* A connected session whose registry is empty or holds one subscriber.
InitBatchRegistry ==
    /\ SessionOfSessions
    /\ client = 1
    /\ webhooks \in { <<>>, << <<"a">> >> }

NextBatchRegistry ==
    \/ \E b \in QueueBatches : Upsert(1, b)
    \/ Awaited
    \/ \E url \in HostUrls : Insert(url)
    \/ \E index \in 0..(Cardinality(HostUrls) - 1) : Delete(index)

SpecBatchRegistry == InitBatchRegistry /\ [][NextBatchRegistry]_vars

(***************************************************************************)
(* Webhook dispatch: WebhookService.send / sendWithResponse                *)
(***************************************************************************)
Subscribers == {"https://a", "https://b", "https://c"}

\* The registries a dispatch may read: distinct URLs in some order.
SubscriberLists ==
    { list \in UNION {[1..n -> Subscribers] : n \in 0..MaxSubscribers} :
        \A i, j \in DOMAIN list : list[i] = list[j] => i = j }

Null == [kind |-> "null"]

\* A JSON string value: its characters
Str(s) == [kind |-> "string", s |-> s]

\* The bodies a subscriber may answer with.
Bodies ==
    {"{\"msg\":\"pong\"}", "{\"msg\":\"\"}", "{\"msg\":70}", "{}", "pong"}

\* JSON.parse(text) / res.json() on those bodies; msg holds the value of
\* the object's key 'msg', if it has one
JSONparse(text) ==
    CASE text = "{\"msg\":\"pong\"}" ->
           [kind |-> "object", msg |-> <<Str(<<"p", "o", "n", "g">>)>>]
      [] text = "{\"msg\":\"\"}" -> [kind |-> "object", msg |-> <<Str(<<>>)>>]
      [] text = "{\"msg\":70}" -> [kind |-> "object", msg |-> <<Num(70)>>]
      [] text = "{}" -> [kind |-> "object", msg |-> <<>>]
      [] OTHER -> [kind |-> "SyntaxError"]

\* What a subscriber does with one POST: the fetch rejects (unreachable,
\* connection reset), or it resolves with a response.
Answers ==
    {[kind |-> "rejects"]} \cup
    { [kind |-> "response", status |-> r[1], ok |-> r[2], contentType |-> t,
       body |-> b] :
        r \in {<<200, TRUE>>, <<500, FALSE>>},
        t \in {"application/json", "text/plain"},
        b \in Bodies }

\* The try block of sendWithResponse throws: fetch rejected, or res.json()
\* could not parse the body.
Throws(answer) ==
    \/ answer.kind = "rejects"
    \/ /\ answer.contentType = "application/json"
       /\ JSONparse(answer.body).kind = "SyntaxError"

\* The response value of a call that did not throw
ResponseOf(answer) ==
    IF JSONparse(answer.body).kind = "SyntaxError"
    THEN [kind |-> "text", text |-> answer.body]
    ELSE JSONparse(answer.body)

\* A variant of the catch block that pushes nothing.
PushedOmittingFailures(results, url, answer) ==
    IF Throws(answer) THEN results
    ELSE Append(results, [url |-> url, ok |-> answer.ok,
                          status |-> [kind |-> "number", n |-> answer.status],
                          response |-> ResponseOf(answer)])

\* results.push(...) of the try block, or of the catch block
Pushed(results, url, answer) ==
    IF Throws(answer)
    THEN Append(results, [url |-> url, ok |-> FALSE, status |-> Null,
                          response |-> Null])
    ELSE Append(results, [url |-> url, ok |-> answer.ok,
                          status |-> [kind |-> "number", n |-> answer.status],
                          response |-> ResponseOf(answer)])

\* for (const url of list): the next position at or after i whose url is
\* not '', Len(list) + 1 without one
RECURSIVE NextUrl(_, _)
NextUrl(list, i) ==
    IF i > Len(list) THEN i
    ELSE IF list[i] = "" THEN NextUrl(list, i + 1)
    ELSE i

\* The loop goes on to its next await fetch, or the call returns.
Advance(d) ==
    LET i == NextUrl(d.list, d.at + 1) IN
    [d EXCEPT !.at = i, !.pc = IF i > Len(d.list) THEN "done" ELSE "fetch"]

dispatchFrame ==
    <<sessionVars, clientCounter, reconnectCount, timerVars, startVars,
      refreshVars, ws, webhooks, authorizedWhatsAppIds, now, messageQueue,
      job, sending, lifecycle>>

\* A caller reads the registry and calls send(list, data) or
\* sendWithResponse(list, data).
Dispatch(op) ==
    /\ dispatch.pc = "idle"
    /\ dispatch' = Advance([IdleDispatch EXCEPT !.op = op, !.list = webhooks])
    /\ last' = Registered(op, webhooks, dispatch'.pc)
    /\ UNCHANGED dispatchFrame

\* await fetch(url, payload) settles with the subscriber's answer.
Fetched(answer) ==
    /\ dispatch.pc = "fetch"
    /\ dispatch' =
         Advance([dispatch EXCEPT
                    !.answers = Append(@, answer),
                    !.results = IF dispatch.op = "sendWithResponse"
                                THEN Pushed(@, dispatch.list[dispatch.at],
                                            answer)
                                ELSE @])
    /\ last' = Registered("fetched", answer, dispatch'.pc)
    /\ UNCHANGED dispatchFrame

\* `${str}` for a number that is a non-negative integer: its decimal digits
RECURSIVE Digits(_)
Digits(n) ==
    IF n < 10 THEN <<DigitChars[n + 1]>>
    ELSE Append(Digits(n \div 10), DigitChars[(n % 10) + 1])

\* to.string(str) of a parsed value: a string as it is, a number as
\* `${str} `.trim(), anything else ''
toStringOf(value) ==
    CASE value.kind = "string" -> value.s
      [] value.kind = "number" -> trim(Digits(value.n) \o <<" ">>)
      [] OTHER -> <<>>

\* response?.response?.msg
msgOf(result) ==
    IF result.response.kind = "object" /\ result.response.msg # <<>>
    THEN result.response.msg[1]
    ELSE [kind |-> "undefined"]

\* Variant of replyMsg in which a later candidate replaces an earlier one.
RECURSIVE replyMsgOfLast(_)
replyMsgOfLast(responses) ==
    IF responses = <<>> THEN <<>>
    ELSE LET candidate == toStringOf(msgOf(responses[Len(responses)])) IN
         IF candidate # <<>> THEN candidate
         ELSE replyMsgOfLast(SubSeq(responses, 1, Len(responses) - 1))

\* let replyMsg = ''; for (const response of responses) { const candidate =
\* to.string(response?.response?.msg); if (candidate !== '') { replyMsg =
\* candidate; break; } }
RECURSIVE replyMsg(_)
replyMsg(responses) ==
    IF responses = <<>> THEN <<>>
    ELSE LET candidate == toStringOf(msgOf(Head(responses))) IN
         IF candidate # <<>> THEN candidate
         ELSE replyMsg(Tail(responses))

\* The caller resumes with the value the call returned; the caller of
\* sendWithResponse picks the reply from it.
Returned ==
    /\ dispatch.pc = "done"
    /\ dispatch' = IdleDispatch
    /\ last' = [op |-> "returned", arg |-> dispatch.results,
                outcome |-> "idle", h |-> 0, cur |-> 0, of |-> dispatch.op,
                reply |-> IF dispatch.op = "sendWithResponse"
                          THEN replyMsg(dispatch.results) ELSE <<>>]
    /\ UNCHANGED dispatchFrame

InitDispatch ==
    /\ SessionInit
    /\ webhooks \in SubscriberLists
    /\ PipelineInit

NextDispatch ==
    \/ Dispatch("send")
    \/ Dispatch("sendWithResponse")
    \/ \E answer \in Answers : Fetched(answer)
    \/ Returned

SpecDispatch == InitDispatch /\ [][NextDispatch]_vars

\* The continuation of a settled await always runs; nothing in the code
\* makes a pending fetch settle.
SpecDispatchFair == SpecDispatch /\ WF_vars(Returned)

(***************************************************************************)
(* An inbound call, step by step: WhatsappService.onCall                   *)
(***************************************************************************)
\* const list = this.webhook.get(); if (is.array(list))
\* this.webhook.send(list, { call }): send runs up to its first await fetch.
Broadcast ==
    IF isArray(webhooks)
    THEN Advance([IdleDispatch EXCEPT !.op = "send", !.list = webhooks])
    ELSE IdleDispatch

\* onCall for a call event of the handle h: try { await
\* this.client.rejectCall(call?.id, call?.from) } catch (_e) {}.  With no
\* handle the call throws at once and the handler goes on to the broadcast.
CallReceived(h) ==
    /\ Receiving(h)
    /\ dispatch.pc = "idle"
    /\ dispatch' = IF client = 0 THEN Broadcast
                   ELSE [IdleDispatch EXCEPT !.pc = "reject", !.op = "send"]
    /\ last' = [Registered("call", h, dispatch'.pc) EXCEPT !.h = h,
                                                          !.cur = client]
    /\ UNCHANGED dispatchFrame

\* await this.client.rejectCall(...) resolves, or rejects and is swallowed.
CallRejectSettled ==
    /\ dispatch.pc = "reject"
    /\ dispatch' = Broadcast
    /\ \E outcome \in {"ok", "error"} :
         last' = Registered("rejectCall", outcome, dispatch'.pc)
    /\ UNCHANGED dispatchFrame

\* A session of Sessions with any registry.
InitCall ==
    /\ SessionOfSessions
    /\ webhooks \in SubscriberLists

NextCall ==
    \/ \E h \in Handles : CallReceived(h)
    \/ CallRejectSettled
    \/ \E answer \in Answers : Fetched(answer)
    \/ Returned

\* The transport settles rejectCall (its query has a timeout) and the
\* continuation of a settled await runs; nothing in the code makes a
\* pending fetch settle.
SpecCallFair ==
    /\ InitCall /\ [][NextCall]_vars
    /\ WF_vars(CallRejectSettled)
    /\ WF_vars(Returned)

(***************************************************************************)
(* Outbound send: WhatsappService.sendMessage / buildMessageContent        *)
(***************************************************************************)
\* is.object: typeof object, not null, with at least one own key
isObject(value) == value.t = "object" /\ value.keys # {}

\* What a request may carry in its media field: nothing, {}, a type
\* without data, or a type with data.
Medias ==
    { Undefined, Value("object", {}, "", ""),
      Value("object", {"type"}, "image", ""),
      Value("object", {"type", "data"}, "image", "aGk=") }

\* What it may carry in its location, poll or contact field
Fields == { Undefined, Value("object", {"name"}, "", "") }

\* The bodies a host may POST to the message route: the JSON literal null,
\* or an object.  chatId is what to.string(payload?.chatId) reads; text is
\* <<>> when the request has none.
Payloads ==
    { [t |-> "null", chatId |-> "", text |-> <<>>, media |-> Undefined,
       location |-> Undefined, poll |-> Undefined, contact |-> Undefined] }
    \cup
    [t : {"object"}, chatId : {"", "111@s.whatsapp.net"},
     text : {<<>>, <<"">>, <<"hi">>}, media : Medias, location : Fields,
     poll : Fields, contact : Fields]

\* A content object of one shape; text is set for the plain-text shape only.
Content(shape, keys, text) ==
    [t |-> "object", shape |-> shape, keys |-> keys, text |-> text]

\* Variant of buildMessageContent that looks at location before media.
buildMessageContentLocationFirst(payload) ==
    IF isObject(payload.location)
    THEN Content("location", {"location"}, <<>>)
    ELSE IF isObject(payload.media)
    THEN IF payload.media.type # "" /\ payload.media.data # ""
         THEN Content("media", {payload.media.type, "caption", "mimetype",
                                "fileName", "ptt", "gifPlayback"}, <<>>)
         ELSE Content("text", {"text"}, payload.text)
    ELSE IF isObject(payload.poll)
    THEN Content("poll", {"poll"}, <<>>)
    ELSE IF isObject(payload.contact)
    THEN Content("contacts", {"contacts"}, <<>>)
    ELSE Content("text", {"text"}, payload.text)

\* buildMessageContent(payload): content starts as { text }
buildMessageContent(payload) ==
    IF isObject(payload.media)
    THEN IF payload.media.type # "" /\ payload.media.data # ""
         THEN Content("media", {payload.media.type, "caption", "mimetype",
                                "fileName", "ptt", "gifPlayback"}, <<>>)
         ELSE Content("text", {"text"}, payload.text)
    ELSE IF isObject(payload.location)
    THEN Content("location", {"location"}, <<>>)
    ELSE IF isObject(payload.poll)
    THEN Content("poll", {"poll"}, <<>>)
    ELSE IF isObject(payload.contact)
    THEN Content("contacts", {"contacts"}, <<>>)
    ELSE Content("text", {"text"}, payload.text)

sendFrame ==
    <<clientCounter, reconnectCount, timerVars, refreshVars, webhooks,
      authorizedWhatsAppIds, now, messageQueue, job, dispatch, lifecycle>>

\* return {}
ReturnedEmpty(call) == [call EXCEPT !.pc = "returned", !.result = "empty"]

\* After an ensureConnected(): with no handle return {}, else
\* return await this.client.sendMessage(chatId, content, options)
AfterSendEnsure(call, c, sendPc) ==
    IF c = 0 THEN ReturnedEmpty(call) ELSE [call EXCEPT !.pc = sendPc]

\* await this.ensureConnected() inside sendMessage: nothing to do when the
\* session is alive or a reconnect is scheduled; otherwise start(), whose
\* attempt the call awaits at waitPc.
SendEnsure(call, waitPc, sendPc) ==
    \E wsReadyState \in wsReadyStates :
      LET asked == [call EXCEPT !.ensures = @ + 1]
          health == getConnectionHealth(wsReadyState)
      IN
      IF health.alive \/ health.reconnectScheduled
      THEN /\ sending' = AfterSendEnsure(asked, client, sendPc)
           /\ last' = Registered("sendMessage", call.payload.chatId, "ensured")
           /\ UNCHANGED <<sessionVars, startVars, ws>>
      ELSE /\ StartCall("sendMessage")
           /\ sending' =
                IF StartEntry = "return"
                THEN AfterSendEnsure([asked EXCEPT !.started = TRUE], client,
                                     sendPc)
                ELSE [asked EXCEPT !.started = TRUE, !.pc = waitPc]

\* sendMessage(payload), up to its first await.  buildMessageContent
\* destructures payload before the try block is entered.  One call is
\* followed per run.
SendMessage(payload) ==
    /\ sending.pc = "idle"
    /\ LET call == [IdleSending EXCEPT !.payload = payload] IN
       IF payload.t # "object"
       THEN /\ sending' = [call EXCEPT !.pc = "threw"]
            /\ last' = Registered("sendMessage", payload.chatId, "threw")
            /\ UNCHANGED <<sessionVars, startVars, ws>>
       ELSE LET built == [call EXCEPT
                            !.content = buildMessageContent(payload)] IN
            IF payload.chatId = "" \/ ~isObject(built.content)
            THEN /\ sending' = ReturnedEmpty(built)
                 /\ last' = Registered("sendMessage", payload.chatId, "empty")
                 /\ UNCHANGED <<sessionVars, startVars, ws>>
            ELSE IF client = 0 \/ ~isConnected
            THEN SendEnsure(built, "ensure", "send")
            ELSE /\ sending' = [built EXCEPT !.pc = "send"]
                 /\ last' = Registered("sendMessage", payload.chatId, "send")
                 /\ UNCHANGED <<sessionVars, startVars, ws>>
    /\ UNCHANGED sendFrame

\* The start() attempt ensureConnected() awaited has settled.
SendEnsured ==
    /\ sending.pc \in {"ensure", "reensure"}
    /\ ~startPromise
    /\ sending' = AfterSendEnsure(sending, client,
                                  IF sending.pc = "ensure" THEN "send"
                                  ELSE "resend")
    /\ last' = Registered("sendEnsured", sending.payload.chatId, sending'.pc)
    /\ UNCHANGED <<sessionVars, startVars, ws, sendFrame>>

\* await this.client.sendMessage(...) resolves, or rejects: with an error
\* of the 'connection closed' / 'not connected' class (isConnectionClosedError)
\* sendMessage asks ensureConnected() and sends again if a handle exists;
\* any other error is logged and {} returned.
SendSettled(outcome) ==
    /\ sending.pc = "send"
    /\ LET call == [sending EXCEPT !.attempts = Append(@, outcome)] IN
       CASE outcome = "ok" ->
              /\ sending' = [call EXCEPT !.pc = "returned", !.result = "sent"]
              /\ last' = Registered("sendSettled", outcome, "sent")
              /\ UNCHANGED <<sessionVars, startVars, ws>>
         [] outcome = "error" ->
              /\ sending' = ReturnedEmpty(call)
              /\ last' = Registered("sendSettled", outcome, "empty")
              /\ UNCHANGED <<sessionVars, startVars, ws>>
         [] OTHER -> SendEnsure(call, "reensure", "resend")
    /\ UNCHANGED sendFrame

\* The second client.sendMessage resolves or rejects (logged, {} returned).
ResendSettled(outcome) ==
    /\ sending.pc = "resend"
    /\ LET call == [sending EXCEPT !.attempts = Append(@, outcome)] IN
       sending' = IF outcome = "ok"
                  THEN [call EXCEPT !.pc = "returned", !.result = "sent"]
                  ELSE ReturnedEmpty(call)
    /\ last' = Registered("resendSettled", outcome, sending'.result)
    /\ UNCHANGED <<sessionVars, startVars, ws, sendFrame>>

\* How a transport send may end
SendOutcomes == {"ok", "closed", "error"}

NextSend ==
    \/ \E payload \in Payloads : SendMessage(payload)
    \/ SendEnsured
    \/ \E outcome \in SendOutcomes : SendSettled(outcome)
    \/ \E outcome \in SendOutcomes : ResendSettled(outcome)
    \/ StartCreate
    \/ StartFail

SpecSend == InitPipeline /\ [][NextSend]_vars

(***************************************************************************)
(* Module life cycle: the constructor, onModuleInit, onModuleDestroy       *)
(***************************************************************************)
\* The settings of WHATSAPP_AUTO_RECOVER and WHATSAPP_FORCE_REFRESH_ENABLED
Flags == {Unset, Setting(<<"t", "r", "u", "e">>),
          Setting(<<"f", "a", "l", "s", "e">>)}

\* The settings of the two interval variables
IntervalSettings ==
    {Unset, Setting(<<"3", "0", "0", "0", "0">>), Setting(<<"1", "0", "0", "0">>),
     Setting(<<"1", "2", "0", "0", "0", "0">>), Setting(<<"a", "b", "c">>),
     Setting(<<"1", "-", "2">>), Setting(<<"5", ".">>),
     Setting(<<"7", "0", "0", "0", "0", ".", "5">>)}

\* The rest of onModuleInit once start() is over: the two setInterval calls
Installed(l) ==
    [l EXCEPT !.pc = "initialised",
              !.autoRecoverTimer = @ \/ l.autoRecoverEnabled,
              !.refreshTimer = @ \/ l.forcedRefreshEnabled]

\* onModuleInit(), up to await this.start()
ModuleInit ==
    /\ lifecycle.pc = "constructed"
    /\ IF ~lifecycle.hasSavedSession
       THEN /\ lifecycle' = [lifecycle EXCEPT !.pc = "initialised"]
            /\ last' = Step("moduleInit", "return")
            /\ UNCHANGED <<sessionVars, startVars, ws>>
       ELSE /\ StartCall("moduleInit")
            /\ lifecycle' = IF StartEntry = "return" THEN Installed(lifecycle)
                            ELSE [lifecycle EXCEPT !.pc = "start"]
    /\ UNCHANGED <<clientCounter, reconnectCount, timerVars, refreshVars,
                   webhooks, authorizedWhatsAppIds, now, messageQueue, job,
                   dispatch, sending>>

\* await this.start() is over (resolved, or rejected and logged)
ModuleInitResume ==
    /\ lifecycle.pc = "start"
    /\ ~startPromise
    /\ lifecycle' = Installed(lifecycle)
    /\ last' = Step("moduleInitResume", "none")
    /\ UNCHANGED <<sessionVars, startVars, ws, clientCounter, reconnectCount,
                   timerVars, refreshVars, webhooks, authorizedWhatsAppIds,
                   now, messageQueue, job, dispatch, sending>>

\* onModuleDestroy(): the intervals that are installed are cleared.  The
\* call is not tied to the position of onModuleInit: one that is suspended
\* at await this.start() goes on when the attempt settles.
ModuleDestroy ==
    /\ Running
    /\ lifecycle' = [lifecycle EXCEPT !.destroyed = TRUE,
                                      !.autoRecoverTimer = FALSE,
                                      !.refreshTimer = FALSE]
    /\ last' = Step("moduleDestroy", "none")
    /\ UNCHANGED <<sessionVars, startVars, ws, clientCounter, reconnectCount,
                   timerVars, refreshVars, webhooks, authorizedWhatsAppIds,
                   now, messageQueue, job, dispatch, sending>>

\* The auto-recover interval fires.
AutoRecoverTick == lifecycle.autoRecoverTimer /\ EnsureConnected

\* The forced-refresh interval fires.
RefreshTick == lifecycle.refreshTimer /\ RefreshBegin

InitLifecycle ==
    /\ SessionInit
    /\ webhooks = <<>>
    /\ WorkInit
    /\ \E autoRecover \in Flags, autoRecoverInterval \in IntervalSettings,
          forceRefresh \in Flags, forceRefreshInterval \in IntervalSettings,
          savedSession \in BOOLEAN :
         lifecycle = Constructed(autoRecover, autoRecoverInterval,
                                 forceRefresh, forceRefreshInterval,
                                 savedSession)

NextLifecycle ==
    \/ ModuleInit
    \/ ModuleInitResume
    \/ ModuleDestroy
    \/ AutoRecoverTick
    \/ RefreshTick
    \/ RefreshResume
    \/ StartCreate
    \/ StartFail

SpecLifecycle == InitLifecycle /\ [][NextLifecycle]_vars

TypeOK ==
    /\ client \in 0..MaxClients
    /\ currentClientId = client
    /\ client \in {0, clientCounter}
    /\ isConnected \in BOOLEAN
    /\ reconnectTimeout \in {"null", "pending", "fired"}
    /\ orphanTimers \in 0..MaxOrphanTimers
    /\ startPromise = (startPc \notin {"idle", "exited"})
    /\ uncaught => startPromise
    /\ refreshInProgress = (refreshPc # "idle")
    /\ suppressReconnect = refreshInProgress
    /\ refreshPc \in {"idle", "delay"}

(***************************************************************************)
(* Properties                                                              *)
(***************************************************************************)
\* The steps that call start()
StartCallers == {"hostStart", "timer", "ensure", "refreshResume"}

ConnectionEvents == {"qr", "open", "close"}

Transient(reason) ==
    reason.statusCode # 401 /\ reason.message # "QR refs attempts ended"

\* The step creates a transport handle.
Creates == \E h \in Handles : ws[h] = "none" /\ ws'[h] = "connecting"

\* C1: a start() call made while a start is in flight joins it (or returns):
\* it begins no body, creates no handle and leaves the in-flight attempt as
\* it is; and a handle is created only by the step that settles the
\* in-flight attempt, one handle, so an attempt creates at most one handle.
C1_ConcurrentStartJoins ==
    [][ /\ (last'.op \in StartCallers /\ startPromise) =>
              /\ last'.call \in {"join", "return", "already_alive", "reconnect_scheduled"}
              /\ startPromise' /\ startPc' = startPc
              /\ clientCounter' = clientCounter
              /\ client' = client /\ ws' = ws
        /\ Creates =>
              /\ clientCounter' = clientCounter + 1
              /\ \A h \in Handles : ws'[h] # ws[h] => h = clientCounter'
              /\ startPromise /\ ~startPromise'
              /\ last'.op = "startCreate"
      ]_vars

\* C1 witness: a caller has joined an attempt that is waiting to create its
\* handle.
C1_Witness == last.call = "join" /\ startPc = "auth" /\ joined >= 1

\* C2: a handle is created only while the session holds no handle reference
\* and no generation id; a handle reference is only ever replaced by null,
\* together with the generation id and the connected flag; and a start()
\* that finds a handle and isConnected changes neither the handle nor the
\* sockets, and its attempt creates no handle.
C2_OneHandleAtATime ==
    [][ /\ Creates =>
              /\ client = 0 /\ currentClientId = 0
              /\ client' = clientCounter' /\ currentClientId' = clientCounter'
        /\ (client # 0 /\ client' # client) =>
              /\ client' = 0 /\ currentClientId' = 0 /\ ~isConnected'
        /\ (last'.op \in StartCallers /\ isConnected /\ client # 0) =>
              /\ client' = client /\ currentClientId' = currentClientId
              /\ isConnected' /\ ws' = ws /\ clientCounter' = clientCounter
              /\ startPc' \in {startPc, "delay"}
        /\ (startPc = "delay") => clientCounter' = clientCounter
      ]_vars

\* C2 witness: a second handle has just been created, after the first one
\* was detached.
C2_Witness ==
    last.op = "startCreate" /\ clientCounter >= 2 /\ client = clientCounter

\* C3 (as claimed): a connection.update event from a handle whose id is not
\* the current generation id, the cleared id included, changes neither
\* isConnected, reconnectCount nor the reconnect timer and emits nothing.
C3_StaleConnectionEventsDiscarded ==
    [][ (last'.op \in ConnectionEvents /\ last'.h # currentClientId) =>
            /\ isConnected' = isConnected
            /\ reconnectCount' = reconnectCount
            /\ reconnectTimeout' = reconnectTimeout
            /\ orphanTimers' = orphanTimers
            /\ last'.emit = "none"
      ]_vars

\* C4 (as claimed): an inbound batch that arrives from a handle of a
\* superseded generation while the queue is idle is discarded: no callback
\* is suspended at a presence call, a dispatch or a download for it.
C4_StaleInboundDiscarded ==
    [][ (/\ last'.op = "upsert" /\ job.pc = "idle"
         /\ client # 0 /\ last'.h # client) =>
            job'.pc = "idle"
      ]_vars

\* C5 (as claimed): when a reconnect timer fires while the handle the
\* session holds has reported closed, with no refresh in progress and no
\* start in flight, its start() detaches that handle and goes on to create
\* a new one.
C5_TimerReplacesClosedHandle ==
    [][ (/\ last'.op = "timer"
         /\ ~refreshInProgress /\ ~startPromise
         /\ client # 0 /\ ws[client] = "closed") =>
            (client' = 0 /\ currentClientId' = 0 /\ startPc' = "auth")
      ]_vars

\* C6 (as claimed): a forced-refresh cycle completes only with its start()
\* attempt settled: the attempt has created a new handle, or has failed.
C6_RefreshRestarts ==
    [][ (refreshInProgress /\ ~refreshInProgress') =>
            last'.op \in {"startCreate", "startFail"}
      ]_vars

\* C7: a transient close of the current generation, with reconnectCount < 5
\* and no refresh in progress, adds exactly 1 to reconnectCount and leaves a
\* reconnect timer pending whose delay is entry reconnectCount (after the
\* increment, counted from 1) of [1000, 2000, 2500, 3000, 4000]; an open, or
\* a permanent close, of the current generation sets reconnectCount to 0.
C7_TransientCloseBacksOff ==
    [][ /\ (/\ last'.op = "close" /\ last'.h = currentClientId
            /\ Transient(last'.reason)
            /\ reconnectCount < 5 /\ ~refreshInProgress) =>
              /\ reconnectCount' = reconnectCount + 1
              /\ reconnectTimeout' = "pending"
              /\ last'.delay = <<1000, 2000, 2500, 3000, 4000>>[reconnectCount']
        /\ (/\ last'.h = currentClientId
            /\ \/ last'.op = "open"
               \/ last'.op = "close" /\ ~Transient(last'.reason)) =>
              reconnectCount' = 0
      ]_vars

\* C7 witness: the fifth transient close in a row of a current handle has
\* scheduled the retry after 4000 ms.
C7_Witness ==
    /\ last.op = "close" /\ last.h = last.cur
    /\ reconnectCount = 5 /\ last.delay = 4000

\* C8: reconnectCount stays within 0..5.
C8_ReconnectCountBounded == reconnectCount \in 0..5

\* C8 witness: the count is at the table length and the fifth retry's
\* start() is under way.
C8_Witness == reconnectCount = 5 /\ last.op = "timer" /\ startPc = "auth"

\* C9: a close event that is not discarded as stale and is permanent, or
\* arrives with the budget used up (reconnectCount >= 5), leaves isConnected
\* false and reconnectCount 0, schedules no timer and calls no start().
C9_PermanentCloseStops ==
    [][ (/\ last'.op = "close"
         /\ (currentClientId = 0 \/ last'.h = currentClientId)
         /\ (~Transient(last'.reason) \/ reconnectCount >= 5)) =>
            /\ ~isConnected'
            /\ reconnectCount' = 0
            /\ reconnectTimeout' = reconnectTimeout
            /\ orphanTimers' = orphanTimers
            /\ last'.delay = 0
            /\ startPromise' = startPromise /\ startPc' = startPc
            /\ clientCounter' = clientCounter
      ]_vars

\* C9 witness: a transient close of the current handle arrived with the
\* budget used up: it was reported to the host and the count is back at 0.
C9_Witness ==
    /\ last.op = "close" /\ last.h = last.cur
    /\ Transient(last.reason) /\ last.emit = "text"
    /\ reconnectCount = 0 /\ ~isConnected

\* C10 (as claimed): after an open event that is not discarded, and after a
\* forced refresh has begun, no reconnect timer is pending.
C10_OpenOrRefreshCancelsReconnects ==
    (\/ last.op = "open" /\ (last.cur = 0 \/ last.h = last.cur)
     \/ last.op = "refresh" /\ last.call = "closed")
        => (reconnectTimeout # "pending" /\ orphanTimers = 0)

\* C11: while a forced refresh is in progress, a close event changes neither
\* reconnectCount nor the reconnect timers, schedules no retry, starts
\* nothing and leaves isConnected false; and a forceRefreshConnection() call
\* made while a refresh is in progress returns at once: it changes no
\* socket, no session field, no start() attempt and no refresh flag.
C11_RefreshSuppressesReconnect ==
    [][ /\ (last'.op = "close" /\ refreshInProgress) =>
              /\ ~isConnected'
              /\ reconnectCount' = reconnectCount
              /\ reconnectTimeout' = reconnectTimeout
              /\ orphanTimers' = orphanTimers
              /\ last'.delay = 0
              /\ startPromise' = startPromise /\ startPc' = startPc
              /\ clientCounter' = clientCounter
        /\ (last'.op = "refresh" /\ refreshInProgress) =>
              /\ last'.call = "return"
              /\ ws' = ws
              /\ client' = client /\ currentClientId' = currentClientId
              /\ isConnected' = isConnected
              /\ startPromise' = startPromise /\ startPc' = startPc
              /\ clientCounter' = clientCounter
              /\ refreshInProgress' /\ suppressReconnect'
              /\ refreshPc' = refreshPc
      ]_vars

\* C11 witness: the socket the refresh closed has reported a transient
\* close while the refresh is still in progress.
C11_Witness ==
    /\ last.op = "close" /\ Transient(last.reason)
    /\ refreshInProgress /\ suppressReconnect
    /\ reconnectCount = 0 /\ reconnectTimeout = "null"

\* What the loop logs for an item it drops by a rule.
DropRules == {"origin", "self", "allowlist", "stale", "media"}

\* What the loop logs for an item whose handling raised an error.
Errors == {"threw", "rejected"}

\* C12: the batches that wait are those that arrived after the batch in
\* progress, in the order of arrival, and none waits while the callback
\* chain is idle; a run of the callback touches only the item in progress,
\* later items of the same batch and, once that batch has ended, batches
\* that arrived after it; within a batch the item in progress never moves
\* back; and batches begin in the order of arrival.
C12_BatchesStrictlySerialized ==
    [][ /\ \A i \in DOMAIN messageQueue' : messageQueue'[i].id = job'.id + i
        /\ (job'.pc = "idle") => (messageQueue' = <<>>)
        /\ job'.id >= job.id
        /\ (job'.id = job.id /\ job'.pc # "idle") => job'.k >= job.k
        /\ (job' # job) =>
             \A e \in job'.log :
                \/ e[1] = job.id /\ job.pc # "idle" /\ e[2] >= job.k
                \/ /\ e[1] > job.id
                   /\ job.pc # "idle" =>
                        \E f \in job'.log :
                           /\ f[1] = job.id
                           /\ f[3] \in DropRules \cup Errors \cup {"done"}
      ]_vars

\* C12 witness: the second batch, which arrived while the first was
\* suspended, is in progress at its dispatch while the third waits.
C12_Witness ==
    /\ job.id = 2 /\ job.pc = "dispatch"
    /\ Len(messageQueue) = 1 /\ messageQueue[1].id = 3

\* C13 (as claimed): an item dropped by a rule does not end the batch: the
\* run that dropped it goes on to examine the next item of the batch.
C13_DropDoesNotAbortBatch ==
    \A e \in job.log :
        (e[3] \in DropRules /\ e[2] < e[4]) =>
            \E f \in job.log : f[1] = e[1] /\ f[2] = e[2] + 1

\* C14 (as claimed): an error raised while an item is handled does not end
\* the batch: the run in which it was raised goes on to examine the next
\* item of the batch.
C14_ErrorDoesNotAbortBatch ==
    \A e \in job.log :
        (e[3] \in Errors /\ e[2] < e[4]) =>
            \E f \in job.log : f[1] = e[1] /\ f[2] = e[2] + 1

\* C15: an item is at the webhook dispatch only if its remoteJid is neither
\* status@broadcast, a broadcast list nor a newsletter, and it was not sent
\* by the account itself, whatever the allowlist holds.
C15_BroadcastAndSelfNeverDispatched ==
    (job.pc = "dispatch") =>
        /\ job.batch[job.k].remoteJid \notin
              {"status@broadcast", "444@broadcast", "555@newsletter"}
        /\ ~job.batch[job.k].fromMe

\* C15 witness: a status broadcast whose identifier is on the allowlist has
\* arrived and was dropped by the origin rule.
C15_Witness ==
    /\ last.op = "upsert"
    /\ last.messages[1].remoteJid = "status@broadcast"
    /\ ~last.messages[1].fromMe
    /\ "status@broadcast" \in authorizedWhatsAppIds
    /\ job.pc = "idle" /\ job.log = {<<1, 1, "origin", 1>>}

\* The rules the loop applies before the staleness rule.
EarlierRules == {"empty", "origin", "self", "allowlist"}

\* The item of the batch that has just arrived reached the staleness rule
\* and was dropped by it / was not dropped by it.
DroppedAsStale == \E e \in job.log : e[3] = "stale"
PassedAsFresh == \E e \in job.log : e[3] \notin EarlierRules \cup {"stale"}

\* now - ms > 60000, for a timestamp ms in milliseconds
OlderThan60000(ms) == BigGT(now, BigPlus(ms, 60000))

\* C16 (as claimed): a message with a numeric timestamp that reaches the
\* staleness rule is dropped exactly when now minus the timestamp, taken as
\* seconds when below 10^12 and as milliseconds otherwise, exceeds 60000.
C16_StaleExactlyAbove60000 ==
    (last.op = "upsert" /\ last.messages[1].messageTimestamp.kind
                               \in {"number", "string", "long"}) =>
        LET n == last.messages[1].messageTimestamp.n
            ms == IF BigGT(<<1000000, 0>>, n) THEN BigTimes1000(n) ELSE n
        IN  /\ DroppedAsStale => OlderThan60000(ms)
            /\ PassedAsFresh => ~OlderThan60000(ms)

\* C16 (amended): a message that reaches the staleness rule with a positive
\* numeric timestamp is dropped exactly when now minus the timestamp, taken
\* as seconds when at most 10^12 and as milliseconds above, exceeds 60000;
\* with no timestamp, a zero or a non-numeric one it is never dropped as
\* stale.
C16_StaleAbove60000WhenTimestamped ==
    (last.op = "upsert") =>
        LET t == last.messages[1].messageTimestamp
            ms == IF BigGT(t.n, <<1000000, 0>>) THEN t.n ELSE BigTimes1000(t.n)
        IN  IF t.kind \in {"number", "string", "long"} /\ BigGT(t.n, <<0, 0>>)
            THEN /\ DroppedAsStale => OlderThan60000(ms)
                 /\ PassedAsFresh => ~OlderThan60000(ms)
            ELSE ~DroppedAsStale

\* C16 witness: a message exactly 60000 ms old has passed the staleness
\* rule and its cycle has begun.
C16_Witness ==
    /\ last.op = "upsert"
    /\ last.messages[1].messageTimestamp = [kind |-> "number", n |-> <<1700, 40>>]
    /\ now = <<1700000, 100000>>
    /\ job.pc = "composing"

\* C17: the health report has alive true exactly when isConnected is true,
\* the session holds a handle and that handle's socket is open, and
\* hasClient true exactly when it holds a handle; with no handle alive and
\* hasClient are false; and ensureConnected() answers already_alive only in
\* such a state.  (On a handle that exposes no numeric readyState the report
\* takes isConnected for the state of the socket, and isConnected outlives
\* a transient close.)
C17_AliveIffConnectedHandleOpen ==
    /\ \A wsReadyState \in wsReadyStates :
         LET health == getConnectionHealth(wsReadyState) IN
         /\ health.alive <=>
              (isConnected /\ client # 0 /\ ws[IF client = 0 THEN 1 ELSE client] = "open")
         /\ health.hasClient <=> (client # 0)
         /\ (client = 0) => (~health.alive /\ ~health.hasClient)
    /\ (last.op = "ensure" /\ last.call = "already_alive") =>
          (isConnected /\ client # 0 /\ ws[IF client = 0 THEN 1 ELSE client] = "open")

\* A reconnect timer is pending: the one this.reconnectTimeout references,
\* or one that was scheduled before it and never cleared.
ReconnectPending == reconnectTimeout = "pending" \/ orphanTimers > 0

\* The session is alive: connected, with a handle whose socket is open.
Alive == isConnected /\ client # 0 /\ ws[IF client = 0 THEN 1 ELSE client] = "open"

\* C18 (as claimed): ensureConnected() answers already_alive exactly when
\* the session is alive, reconnect_scheduled exactly when it is not alive
\* and a reconnect timer is pending, and calls start() exactly when it is
\* not alive and no reconnect timer is pending; when it does not call
\* start() it changes no session state.
C18_EnsureCallsStartIffNeeded ==
    [][ (last'.op = "ensure") =>
            /\ (last'.call = "already_alive") <=> Alive
            /\ (last'.call = "reconnect_scheduled") <=> (~Alive /\ ReconnectPending)
            /\ (last'.call \in {"return", "join", "noop", "detach", "fresh"})
                  <=> (~Alive /\ ~ReconnectPending)
            /\ (last'.call \in {"already_alive", "reconnect_scheduled"}) =>
                  UNCHANGED <<sessionVars, clientCounter, reconnectCount,
                              timerVars, startVars, refreshVars, ws>>
      ]_vars

\* C19 (as claimed): the health field reconnectScheduled is true exactly
\* while a reconnect timer is pending.
C19_ReconnectScheduledIffTimerPending ==
    \A wsReadyState \in wsReadyStates :
        getConnectionHealth(wsReadyState).reconnectScheduled <=> ReconnectPending

\* C20 (as claimed): the registry never holds an entry twice nor an empty
\* entry; an insert of a URL that is present, or empty after trimming,
\* leaves the registry as it is; and an insert of a new URL appends its
\* trimmed form at the end.
C20_RegistryUniqueAndInsertAppends ==
    [][ /\ \A i, j \in DOMAIN webhooks' : webhooks'[i] = webhooks'[j] => i = j
        /\ \A i \in DOMAIN webhooks' : webhooks'[i] # <<>>
        /\ (last'.op = "insert") =>
              LET url == trim(last'.arg) IN
              IF url = <<>> \/ \E i \in DOMAIN webhooks : webhooks[i] = url
              THEN webhooks' = webhooks
              ELSE webhooks' = Append(webhooks, url)
      ]_vars

\* C21 (as claimed): with n entries and the host's index i counted from 1,
\* the delete removes exactly the i-th entry and keeps the others in order
\* when 1 <= i <= n, and for every other i it signals not-found and leaves
\* the registry as it is.
C21_HostIndexDeletesIthOrNotFound ==
    [][ (last'.op = "controllerDeleteWebhooks") =>
            LET i == last'.arg
                n == Len(webhooks)
            IN  IF 1 <= i /\ i <= n
                THEN /\ last'.outcome = "saved"
                     /\ webhooks' = [k \in 1..(n - 1) |->
                                        IF k < i THEN webhooks[k]
                                        ELSE webhooks[k + 1]]
                ELSE /\ last'.outcome = "not_found"
                     /\ webhooks' = webhooks
      ]_vars

\* C22: sendWithResponse returns one result per subscriber, in the order of
\* the subscribers, whatever each call did: a call that failed is entered
\* with ok = false and null status and response, a call that was answered
\* with the status and ok of its response, and after a failure the later
\* subscribers are still POSTed to.
C22_OneResultPerSubscriberInOrder ==
    (dispatch.op = "sendWithResponse") =>
        /\ Len(dispatch.results) = Len(dispatch.answers)
        /\ \A i \in DOMAIN dispatch.results :
              LET result == dispatch.results[i]
                  answer == dispatch.answers[i]
                  failed == \/ answer.kind = "rejects"
                            \/ /\ answer.contentType = "application/json"
                               /\ answer.body = "pong"
              IN  /\ result.url = dispatch.list[i]
                  /\ failed => /\ result.ok = FALSE
                               /\ result.status = Null
                               /\ result.response = Null
                  /\ ~failed => /\ result.ok = answer.ok
                                /\ result.status.kind = "number"
                                /\ result.status.n = answer.status
        /\ (dispatch.pc = "done") =>
              /\ Len(dispatch.results) = Len(dispatch.list)
              /\ Len(dispatch.answers) = Len(dispatch.list)
        /\ (dispatch.pc = "fetch") => dispatch.at = Len(dispatch.results) + 1

\* C22 witness: a dispatch to two subscribers has returned; the call to the
\* first failed and the second answered.
C22_Witness ==
    /\ dispatch.op = "sendWithResponse"
    /\ dispatch.pc = "done"
    /\ Len(dispatch.list) = 2
    /\ dispatch.answers[1].kind = "rejects"
    /\ dispatch.answers[2].kind = "response"
    /\ dispatch.results[2].ok

\* C23 (as claimed): every dispatch call is bounded: a call that is waiting
\* for a subscriber eventually returns, also when the subscriber never
\* responds.
C23_DispatchTerminates ==
    (dispatch.pc = "fetch") ~> (dispatch.pc = "done")

\* A sendMessage call that has built its content
Built == sending.pc \notin {"idle", "threw"}

\* C24 (as claimed): the content has exactly one shape, chosen by which
\* fields the request carries, in the order media, location, poll, contact,
\* else plain text.
C24_ShapeByPrecedenceOfPresentFields ==
    Built =>
        sending.content.shape =
            IF isObject(sending.payload.media) THEN "media"
            ELSE IF isObject(sending.payload.location) THEN "location"
            ELSE IF isObject(sending.payload.poll) THEN "poll"
            ELSE IF isObject(sending.payload.contact) THEN "contacts"
            ELSE "text"

\* C24 (amended): a media field counts as media only with a type and data;
\* a media object without them makes the request plain text, whatever else
\* it carries.  Without a media object the order is location, poll, contact,
\* else plain text; a request with media and poll is never sent as a poll.
C24_ShapeByPrecedenceOfUsableMedia ==
    Built =>
        /\ sending.content.shape =
              IF isObject(sending.payload.media)
              THEN IF "type" \in sending.payload.media.keys
                      /\ "data" \in sending.payload.media.keys
                   THEN "media" ELSE "text"
              ELSE IF isObject(sending.payload.location) THEN "location"
              ELSE IF isObject(sending.payload.poll) THEN "poll"
              ELSE IF isObject(sending.payload.contact) THEN "contacts"
              ELSE "text"
        /\ isObject(sending.payload.media) => sending.content.shape # "poll"

\* C24 witness: a request with media, location and poll is being sent as
\* media.
C24_Witness ==
    /\ sending.pc = "send"
    /\ isObject(sending.payload.media)
    /\ isObject(sending.payload.location)
    /\ isObject(sending.payload.poll)
    /\ sending.content.shape = "media"

\* C25 (as claimed): sendMessage never throws; it makes at most two
\* transport sends, the second only after the first failed with an error of
\* the closed-connection class and ensureConnected() was asked; and a call
\* whose last send failed returns an empty result.
C25_SendNeverThrowsRetriesOnce ==
    /\ sending.pc # "threw"
    /\ Len(sending.attempts) <= 2
    /\ sending.ensures <= 2
    /\ (sending.pc \in {"reensure", "resend"} \/ Len(sending.attempts) = 2) =>
          /\ sending.attempts[1] = "closed"
          /\ sending.ensures >= 1
    /\ (sending.pc = "returned") =>
          (sending.result = "sent") =
              /\ sending.attempts # <<>>
              /\ sending.attempts[Len(sending.attempts)] = "ok"

\* A request without a chat id, or with no text and no media, location,
\* poll or contact
Malformed(payload) ==
    /\ payload.t = "object"
    /\ \/ payload.chatId = ""
       \/ /\ payload.text \in {<<>>, <<"">>}
          /\ payload.media = Undefined
          /\ payload.location = Undefined
          /\ payload.poll = Undefined
          /\ payload.contact = Undefined

\* C26 (as claimed): a malformed request returns an empty object without
\* throwing, without a transport send and without starting the session.
C26_MalformedRequestReturnsEmpty ==
    (sending.pc # "idle" /\ Malformed(sending.payload)) =>
        /\ sending.pc = "returned"
        /\ sending.result = "empty"
        /\ sending.attempts = <<>>
        /\ sending.ensures = 0
        /\ ~sending.started

\* C27 (as claimed): isConnected mirrors the connection of the current
\* handle: it becomes true only by an open event, and a close event of the
\* current generation, transient or permanent, leaves it false until the
\* next open.
C27_ConnectedMirrorsCurrentHandle ==
    [][ /\ (isConnected' /\ ~isConnected) => last'.op = "open"
        /\ (last'.op = "close" /\ last'.h = currentClientId) => ~isConnected'
      ]_vars

\* C28: the step that completes a forced-refresh cycle clears the
\* reconnect-suppression flag and the refresh-in-progress flag, whatever the
\* close and the restart did; neither flag is set while no refresh is
\* running.
C28_RefreshCompletionClearsFlags ==
    [][ /\ (last'.op = "refreshResume" /\ refreshPc' = "idle") =>
              ~suppressReconnect' /\ ~refreshInProgress'
        /\ (refreshPc = "delay" /\ refreshPc' # "delay") =>
              last'.op = "refreshResume"
        /\ (refreshPc' = "idle") => ~suppressReconnect' /\ ~refreshInProgress'
      ]_vars

\* C28 witness: a refresh cycle has just completed.
C28_Witness ==
    /\ last.op = "refreshResume"
    /\ refreshPc = "idle"
    /\ ~suppressReconnect
    /\ ~refreshInProgress

\* C29 (as claimed): in every run, once the module is initialised and until
\* it is destroyed, the auto-recover interval is installed when
\* auto-recovery is enabled and the forced-refresh interval when forced
\* refresh is enabled; after destroy neither is installed.
C29_IntervalsInstalledWhenEnabled ==
    /\ (lifecycle.pc = "initialised") =>
          /\ lifecycle.autoRecoverEnabled => lifecycle.autoRecoverTimer
          /\ lifecycle.forcedRefreshEnabled => lifecycle.refreshTimer
    /\ lifecycle.destroyed =>
          ~lifecycle.autoRecoverTimer /\ ~lifecycle.refreshTimer

\* The interval the claim gives for a setting: the default when the
\* variable is unset, the number when it is the decimal notation of one, in
\* both cases raised to the minimum.
ClaimedInterval(env, minimum, default) ==
    LET configured == IF env.set THEN NumberOf(env.str) ELSE Num(default) IN
    IF AtLeast(configured, Num(minimum)) THEN configured ELSE Num(minimum)

\* The setting is unset or the decimal notation of a number.
Configured(env) == ~env.set \/ (env.str # <<>> /\ NumberOf(env.str) # NaN)

\* C30 (as claimed): the auto-recover interval is max(5000, configured)
\* with configured = 30000 when unset, and the forced-refresh interval is
\* max(60000, configured) with configured = 600000 when unset.
C30_IntervalsDefaultAndMinimum ==
    /\ Configured(lifecycle.env[2]) =>
          lifecycle.autoRecoverIntervalMs =
              ClaimedInterval(lifecycle.env[2], 5000, 30000)
    /\ Configured(lifecycle.env[4]) =>
          lifecycle.forcedRefreshIntervalMs =
              ClaimedInterval(lifecycle.env[4], 60000, 600000)

\* The callback moves to the await at pc for the item it was handling.
Reaches(pc) ==
    /\ job'.pc = pc /\ job.pc # pc
    /\ job'.id = job.id /\ job'.k = job.k

\* C31: for an item that passed the filters the callback makes its calls in
\* this order: 'composing' presence to the chat id with the suffix @c.us
\* replaced by @s.whatsapp.net, the dispatch once that call has resolved,
\* mark-read once the dispatch has returned (however mark-read ends, the
\* padding delay or, when the cycle already took its time, the 'paused' call
\* follows), 'paused' presence after mark-read or the padding delay, the
\* 250 ms delay once 'paused' has resolved, and sendMessage only after that
\* delay and only with a reply; no item begins its dispatch, its 'paused'
\* presence or its reply in any other way.
C31_PresenceDispatchReadPausedReply ==
    /\ [](job.pc \in {"composing", "dispatch", "read", "pad", "paused"} =>
            LET from == job.batch[job.k].remoteJid IN
            /\ JidServer(job.jid) # "c.us"
            /\ JidServer(from) # "c.us" => job.jid = from
            /\ JidServer(from) = "c.us" => job.jid = "666@s.whatsapp.net")
    /\ [][ /\ job'.pc = "dispatch" /\ job' # job =>
                /\ Reaches("dispatch") /\ job.pc = "composing"
                /\ last'.op = "composing" /\ last'.outcome = "ok"
           /\ job'.pc = "read" /\ job' # job =>
                Reaches("read") /\ job.pc = "dispatch"
           /\ job.pc = "read" /\ job' # job =>
                \/ Reaches("pad")
                \/ Reaches("paused")
                \/ Entry(job, "threw") \in job'.log
           /\ job'.pc = "pad" /\ job' # job =>
                Reaches("pad") /\ job.pc \in {"dispatch", "read"}
           /\ job'.pc = "paused" /\ job' # job =>
                Reaches("paused") /\ job.pc \in {"read", "pad"}
           /\ job'.pc = "delay" /\ job' # job =>
                /\ Reaches("delay") /\ job.pc = "paused"
                /\ last'.outcome = "ok"
           /\ job'.pc \in {"ensure", "send"} /\ job' # job =>
                /\ job'.id = job.id /\ job'.k = job.k
                /\ job.pc \in {"delay", "ensure"}
                /\ job.reply # ""
           /\ job.pc = "delay" /\ job.reply = "" /\ job' # job =>
                job'.pc \notin {"ensure", "send", "reensure", "resend"}
         ]_vars

\* C31 witness: the reply to a text from 666@c.us is being sent after
\* mark-read failed; the presence calls of the item went to
\* 666@s.whatsapp.net.
C31_Witness ==
    /\ job.pc = "send"
    /\ job.batch[job.k].remoteJid = "666@c.us"
    /\ job.jid = "666@s.whatsapp.net"
    /\ job.reply = "pong"

\* The subscriber's response is an object whose msg is a non-empty string.
HasReplyString(result) ==
    /\ result.response.kind = "object"
    /\ result.response.msg # <<>>
    /\ result.response.msg[1].kind = "string"
    /\ result.response.msg[1].s # <<>>

\* The subscriber's response is an object whose msg is a number.
HasReplyNumber(result) ==
    /\ result.response.kind = "object"
    /\ result.response.msg # <<>>
    /\ result.response.msg[1].kind = "number"

\* C32 (as claimed): the reply picked from the results of a dispatch is the
\* msg string of the first subscriber, in registration order, whose response
\* carries a non-empty string in msg, and '' when no subscriber returned
\* one.
C32_ReplyIsFirstNonEmptyString ==
    (last.op = "returned" /\ last.of = "sendWithResponse") =>
        LET results == last.arg
            with == { i \in DOMAIN results : HasReplyString(results[i]) }
        IN  /\ with = {} => last.reply = <<>>
            /\ with # {} =>
                 \E i \in with :
                    /\ \A j \in with : i <= j
                    /\ last.reply = results[i].response.msg[1].s

\* C32 (amended): the reply is that of the first subscriber, in registration
\* order, whose response carries in msg a non-empty string or a number: the
\* string itself, or the number in decimal digits; responses of failed
\* calls, responses without msg and empty strings are passed over, and
\* without such a subscriber the reply is ''.
C32_ReplyIsFirstNonEmptyStringOrNumber ==
    (last.op = "returned" /\ last.of = "sendWithResponse") =>
        LET results == last.arg
            with == { i \in DOMAIN results :
                        HasReplyString(results[i]) \/ HasReplyNumber(results[i]) }
        IN  /\ with = {} => last.reply = <<>>
            /\ with # {} =>
                 \E i \in with :
                    /\ \A j \in with : i <= j
                    /\ HasReplyString(results[i]) =>
                         last.reply = results[i].response.msg[1].s
                    /\ HasReplyNumber(results[i]) =>
                         /\ IsDigits(last.reply) /\ last.reply # <<>>
                         /\ Decimal(last.reply) = results[i].response.msg[1].n

\* C32 witness: of two subscribers the call to the first failed, and the
\* second answered with the reply that was picked.
C32_Witness ==
    /\ last.op = "returned" /\ last.of = "sendWithResponse"
    /\ Len(last.arg) = 2
    /\ last.arg[1].response = Null
    /\ HasReplyString(last.arg[2])
    /\ last.reply = <<"p", "o", "n", "g">>

\* C33 (as claimed): the payload of an item at the webhook dispatch has
\* exactly one body populated, a non-empty message text or an audio media
\* body, and the item is a text or an audio message: an item of any other
\* kind was dropped before.
C33_OneBodyTextOrAudio ==
    (job.pc = "dispatch") =>
        LET p == job.payload
            text == "message" \in p.keys /\ p.message # ""
            audio == /\ "media" \in p.keys
                     /\ p.type = "audio" /\ p.base64 # ""
        IN  /\ text # audio
            /\ job.batch[job.k].message \in {"conversation", "audioMessage"}

\* The identifier is on the allowlist, whatever the case of its letters.
Allowed(id) == id # "" /\ toLowerCase(id) \in authorizedWhatsAppIds

\* C34: with a non-empty allowlist an item is at the webhook dispatch only
\* if its sender id or its participant id is on the allowlist, case
\* ignored; the allowlist rule drops an item only when the allowlist is not
\* empty and neither id is on it, so an empty allowlist drops nothing.
C34_AllowlistFilter ==
    /\ (job.pc = "dispatch" /\ authorizedWhatsAppIds # {}) =>
          \/ Allowed(job.batch[job.k].remoteJid)
          \/ Allowed(job.batch[job.k].participant)
    /\ \A e \in job.log :
          (e[3] = "allowlist" /\ last.op = "upsert") =>
              /\ authorizedWhatsAppIds # {}
              /\ ~Allowed(last.messages[e[2]].remoteJid)
              /\ ~Allowed(last.messages[e[2]].participant)

\* C34 witness: a message from 333@G.US is at the dispatch under an
\* allowlist that was configured with that id.
C34_Witness ==
    /\ job.pc = "dispatch"
    /\ job.batch[job.k].remoteJid = "333@G.US"
    /\ job.batch[job.k].participant = ""
    /\ "333@g.us" \in authorizedWhatsAppIds

\* The batch i has arrived and its callback has not ended / has ended.
Pending(i) ==
    \/ job.id = i /\ job.pc # "idle"
    \/ \E n \in DOMAIN messageQueue : messageQueue[n].id = i
Processed(i) == job.id > i \/ (job.id = i /\ job.pc = "idle")

\* C35: every batch that has arrived is eventually processed to its end,
\* whatever happened to the batches before it: in particular a batch that
\* arrived behind one whose callback ended with an error.
C35_QueueSurvivesFailedBatch ==
    \A i \in 1..MaxBatches : Pending(i) ~> Processed(i)

\* C35 witness: the callback of batch 1 was rejected by a failed media
\* download, and in the same run the callback of batch 2, which had
\* arrived meanwhile, began and reached its first await.
C35_Witness ==
    /\ \E e \in job.log : e[1] = 1 /\ e[3] = "rejected"
    /\ job.id = 2 /\ job.pc = "composing"
    /\ \E e \in job.log : e[1] = 2 /\ e[3] = "composing"

\* The number of subscribers the running send has POSTed to.
Posted ==
    CASE dispatch.pc = "fetch" -> dispatch.at
      [] dispatch.pc = "done" -> Len(dispatch.list)
      [] OTHER -> 0

\* C36 (as claimed): once the handler of a call event has begun, every
\* registered subscriber is eventually POSTed the { call } payload, after
\* the attempt to reject the call, whether that attempt succeeded, failed
\* or could not be made for lack of a handle.
C36_CallBroadcastToEverySubscriber ==
    (dispatch.op = "send" /\ dispatch.pc \in {"reject", "fetch"})
        ~> (dispatch.op = "send" /\ Posted = Len(webhooks))

\* C37 (as claimed): whenever isConnected is true the session holds a
\* transport handle.
C37_ConnectedImpliesHandle == isConnected => client # 0

\* C38 (as claimed): at most one reconnect timer is pending at any time: no
\* timer that was scheduled and then replaced is still pending.
C38_OneReconnectTimerPending == orphanTimers = 0

\* C39 (as claimed): an item that passed the filters is dispatched, however
\* its 'composing' presence call ends and whether or not a handle is held:
\* the item at the 'composing' call goes on to its dispatch, and the only
\* items whose cycle is ended by an error are items that were dispatched
\* before (those whose dispatch has returned: at mark-read, at the padding
\* delay or at the 'paused' call).
C39_SurvivorDispatchedWhateverPresence ==
    [][ /\ job.pc = "composing" /\ job' # job =>
             job'.pc = "dispatch" /\ job'.id = job.id /\ job'.k = job.k
        /\ \A e \in job'.log :
             (e[3] = "threw" /\ job' # job) =>
                 /\ job.pc \in {"dispatch", "read", "pad", "paused"}
                 /\ e[1] = job.id /\ e[2] = job.k
      ]_vars

\* The step begins the callback of a batch.
Begins == job'.pc # "idle" /\ (job'.id # job.id \/ job.pc = "idle")

\* C40: the list a batch is dispatched to is the registry content at the
\* moment the batch's callback begins, and it stays the same until the
\* callback ends, whatever is inserted or deleted meanwhile; the dispatch of
\* each of its items POSTs to exactly that list; and a callback that begins
\* while the registry is empty does nothing: the batch is passed over with
\* no log entry, no await and no call.
C40_ListReadOnceAtBatchStart ==
    [][ /\ Begins => job'.list = webhooks /\ webhooks # <<>>
        /\ (job.pc # "idle" /\ job'.id = job.id /\ job'.pc # "idle")
             => job'.list = job.list
        /\ (job.pc = "dispatch" /\ job'.pc # "dispatch")
             => last'.op = "dispatch" /\ last'.posts = Len(job.list)
        /\ (webhooks = <<>> /\ job' # job) =>
             /\ ~Begins
             /\ \A e \in job'.log : e[1] = job.id /\ job.pc # "idle"
      ]_vars

\* C40 witness: the item of a batch that began with one subscriber was
\* POSTed to that subscriber after the host had deleted it from the
\* registry.
C40_Witness ==
    /\ last.op = "dispatch" /\ last.posts = 1
    /\ job.list = << <<"a">> >>
    /\ webhooks = <<>>

====
